---- MODULE Spec2Model ----
(***************************************************************************)
(* Multi-channel post lifecycle of jggl_channels_system:                   *)
(*   apps/posts/models.py        MultiChannelPost, ChannelPost             *)
(*   apps/posts/signals.py       fan-out on parent creation                *)
(*   apps/posts/tasks.py         translation / publish / delete tasks      *)
(*   apps/integrations/translation/tasks.py   batch translation            *)
(* One MultiChannelPost (the parent) of one ChannelGroup is modelled; its  *)
(* ChannelPost rows (the variants) are the sequence posts, indexed by pk.  *)
(* Celery tasks are messages in queue; a worker takes one and runs it, a   *)
(* database access at a time where other workers can interleave.           *)
(***************************************************************************)
EXTENDS Integers, Sequences, FiniteSets, TLC

VARIABLES
    channels,   \* Channel rows of the group: language, is_active, bot_can_*
    chanOrder,  \* the order in which a Channel queryset yields the rows
    parent,     \* the MultiChannelPost row
    posts,      \* the ChannelPost rows, posts[pk]
    queue,      \* Celery task messages waiting for a worker
    workers,    \* what each worker process is running, with its local objects
    now,        \* the wall clock that auto_now reads
    gateway,    \* the calls send_message_sync has received
    requests    \* how many requests the operator has made after creating the post

vars == <<channels, chanOrder, parent, posts, queue, workers, now, gateway,
          requests>>

----------------------------------------------------------------------------
(* Bounds of the model. *)

\* the clock stops advancing at MaxClock
MaxClock == 2
\* at most MaxRequests requests of the operator and channel syncs
MaxRequests == 2

----------------------------------------------------------------------------
(* The data: apps/telegram_channels/models.py, apps/posts/models.py. *)

Channels == {"c1", "c2", "c3"}
\* the worker processes; they are alike, and a task goes to the first idle one
Workers == {1, 2}
NoLanguage == "none"

\* PostStatus
P_DRAFT == "draft"
P_READY_FOR_PUBLISH == "ready_for_publish"
P_PUBLISHING == "publishing"
P_PUBLISHED == "published"
P_PARTIAL_PUBLISHED == "partial_published"
P_FAILED == "failed"

\* ChannelPostStatus
DRAFT == "draft"
PENDING_TRANSLATION == "pending_translation"
PENDING_PUBLISH == "pending_publish"
PUBLISHING == "publishing"
PUBLISHED == "published"
FAILED == "failed"

\* SourceType
PRIMARY == "primary"
AUTO_TRANSLATED == "auto_translated"
MANUAL == "manual"

\* the publish tasks' retry ceiling: @shared_task(bind=True, max_retries=3)
MaxRetries == 3

\* markdown_to_telegram_html: the empty text converts to the empty text, any
\* other text to its HTML rendering, which is a different text.
markdown_to_telegram_html(md) == IF md = "" THEN "" ELSE "<" \o md \o ">"

\* the source texts an operator writes: none, or some markdown
Texts == {"", "Hello"}

\* The MultiChannelPost row before the operator has created it.
NoParent ==
    [exists |-> FALSE, status |-> P_DRAFT, primary_channel |-> "c1",
     auto_translate_enabled |-> FALSE, primary_text_markdown |-> ""]

Idle == [pc |-> "idle"]

----------------------------------------------------------------------------
(* MultiChannelPost.create_channel_posts and the post_save signal. *)

\* The defaults of get_or_create for one channel.
NewChannelPost(mp, c) ==
    LET is_primary == (c = mp.primary_channel) IN
    [channel |-> c,
     language |-> channels[c].language,
     source_type |-> IF is_primary THEN PRIMARY
                     ELSE IF mp.auto_translate_enabled THEN AUTO_TRANSLATED
                     ELSE MANUAL,
     text_markdown |-> IF is_primary THEN mp.primary_text_markdown ELSE "",
     text_telegram_html |-> "",
     telegram_message_id |-> "",
     status |-> IF is_primary THEN DRAFT
                ELSE IF mp.auto_translate_enabled THEN PENDING_TRANSLATION
                ELSE DRAFT,
     translation_requested |-> FALSE,
     translation_received_at |-> FALSE,
     manually_edited |-> FALSE,
     published_at |-> FALSE,
     error_message |-> "",
     updated_at |-> now]

\* objects.create in place of get_or_create
create_always(ps, mp, c) == Append(ps, NewChannelPost(mp, c))

\* ChannelPost.objects.get_or_create(multi_post=self, channel=channel, defaults)
get_or_create(ps, mp, c) ==
    IF \E pk \in DOMAIN ps : ps[pk].channel = c
    THEN ps
    ELSE Append(ps, NewChannelPost(mp, c))

\* the loop of create_channel_posts over the queryset, in its order
RECURSIVE CreateLoop(_, _, _)
CreateLoop(ps, mp, order) ==
    IF order = <<>> THEN ps
    ELSE CreateLoop(get_or_create(ps, mp, Head(order)), mp, Tail(order))

\* the queryset without its is_active filter
AllChannelsUnfiltered == chanOrder

\* self.group.channels.filter(is_active=True), as the sequence the queryset yields
ActiveChannels == SelectSeq(chanOrder, LAMBDA c : channels[c].is_active)

create_channel_posts(ps, mp) == CreateLoop(ps, mp, ActiveChannels)

RequestTranslationsMsg == [task |-> "request_translations", pk |-> 0, retries |-> 0]

\* the post_save receiver without its test of created
receiver_on_every_save(created, mp, ps, q) ==
    [posts |-> create_channel_posts(ps, mp),
     queue |-> IF mp.auto_translate_enabled
               THEN q \cup {RequestTranslationsMsg} ELSE q]

\* The post_save receiver of MultiChannelPost, for the saved instance mp: the
\* ChannelPost rows and the task queue it leaves.
create_channel_posts_on_multi_post_create(created, mp, ps, q) ==
    IF created
    THEN [posts |-> create_channel_posts(ps, mp),
          queue |-> IF mp.auto_translate_enabled
                    THEN q \cup {RequestTranslationsMsg} ELSE q]
    ELSE [posts |-> ps, queue |-> q]

\* MultiChannelPost.objects.create(...): the row is saved with status draft and
\* the post_save receiver runs create_channel_posts and, with auto-translate,
\* request_translations.delay.
CreatePost(primaries, texts) ==
    /\ ~parent.exists
    /\ \E pc \in primaries, auto \in BOOLEAN, text \in texts :
         LET mp == [exists |-> TRUE, status |-> P_DRAFT, primary_channel |-> pc,
                    auto_translate_enabled |-> auto,
                    primary_text_markdown |-> text]
             after == create_channel_posts_on_multi_post_create(TRUE, mp, posts, queue) IN
         /\ parent' = mp
         /\ posts' = after.posts
         /\ queue' = after.queue
    /\ UNCHANGED <<channels, chanOrder, workers, now, gateway, requests>>

\* MultiChannelPostAdmin.save_model on an existing parent (change=True): the
\* form's fields are saved, here the auto-translate box, and post_save is sent
\* with created=False.
SaveParent ==
    /\ requests < MaxRequests
    /\ requests' = requests + 1
    /\ parent.exists
    /\ \E auto \in BOOLEAN :
         LET mp == [parent EXCEPT !.auto_translate_enabled = auto]
             after == create_channel_posts_on_multi_post_create(FALSE, mp, posts, queue) IN
         /\ parent' = mp
         /\ posts' = after.posts
         /\ queue' = after.queue
    /\ UNCHANGED <<channels, chanOrder, workers, now, gateway>>

\* create_channel_posts called again on the saved parent.
CreateChannelPostsAgain ==
    /\ requests < MaxRequests
    /\ requests' = requests + 1
    /\ parent.exists
    /\ posts' = create_channel_posts(posts, parent)
    /\ UNCHANGED <<channels, chanOrder, parent, queue, workers, now, gateway>>

\* The channel sync (apps/integrations/telegram_bot/tasks.py) switches a channel
\* of the group on.
ActivateChannel ==
    /\ requests < MaxRequests
    /\ requests' = requests + 1
    /\ \E c \in Channels :
         /\ ~channels[c].is_active
         /\ channels' = [channels EXCEPT ![c].is_active = TRUE]
    /\ UNCHANGED <<chanOrder, parent, posts, queue, workers, now, gateway>>

\* The channels an operator can name as primary that are not of the selected
\* group: one of another group, one of no group (Channel.group is nullable).
OtherChannels == {"x1", "x0"}

SelectedGroup == "g1"

NoGroup == "none"

\* Channel.group of each channel.
GroupOf(c) ==
    IF c \in Channels THEN SelectedGroup ELSE IF c = "x1" THEN "g2" ELSE NoGroup

validate_anything(data) == TRUE

\* MultiChannelPostCreateSerializer.validate: TRUE when the data passes, FALSE
\* when it raises the ValidationError.
validate(data) == ~(GroupOf(data.primary_channel) # data.group)

\* POST /multi-posts/: the create serializer validates, and only then saves
\* the parent, which fires the post_save receiver.
ApiCreatePostWith(pc, auto, text) ==
    /\ ~parent.exists
    /\ requests < MaxRequests
    /\ requests' = requests + 1
    /\ IF validate([group |-> SelectedGroup, primary_channel |-> pc])
       THEN LET mp == [exists |-> TRUE, status |-> P_DRAFT, primary_channel |-> pc,
                       auto_translate_enabled |-> auto,
                       primary_text_markdown |-> text] IN
            /\ parent' = mp
            /\ posts' = create_channel_posts(posts, mp)
            /\ queue' = IF auto THEN queue \cup {RequestTranslationsMsg} ELSE queue
       ELSE UNCHANGED <<parent, posts, queue>>
    /\ UNCHANGED <<channels, chanOrder, workers, now, gateway>>

ApiCreatePost ==
    \E pc \in Channels \cup OtherChannels, auto \in BOOLEAN, text \in Texts :
        ApiCreatePostWith(pc, auto, text)

----------------------------------------------------------------------------
(* MultiChannelPost.update_status. *)

Count(statuses, st) == Cardinality({i \in DOMAIN statuses : statuses[i] = st})

\* update_status with the partial_published test cut down to published > 0
update_status_partial_early(statuses, current) ==
    LET total == Len(statuses)
        published == Count(statuses, PUBLISHED)
        failed == Count(statuses, FAILED)
        publishing == Count(statuses, PUBLISHING)
    IN  IF total = 0 THEN current
        ELSE IF published = total THEN P_PUBLISHED
        ELSE IF failed = total THEN P_FAILED
        ELSE IF published > 0 THEN P_PARTIAL_PUBLISHED
        ELSE IF publishing > 0 THEN P_PUBLISHING
        ELSE current

\* update_status that looks at the first variant before it counts
update_status_first_variant(statuses, current) ==
    LET total == Len(statuses)
        published == Count(statuses, PUBLISHED)
        failed == Count(statuses, FAILED)
        publishing == Count(statuses, PUBLISHING)
    IN  IF total = 0 THEN current
        ELSE IF statuses[1] = PUBLISHED THEN P_PUBLISHED
        ELSE IF published = total THEN P_PUBLISHED
        ELSE IF failed = total THEN P_FAILED
        ELSE IF published > 0 /\ published + failed = total THEN P_PARTIAL_PUBLISHED
        ELSE IF publishing > 0 THEN P_PUBLISHING
        ELSE current

\* The status update_status leaves in self.status, from the statuses the count
\* queries saw and the status the in-memory parent object had.
update_status(statuses, current) ==
    LET total == Len(statuses)
        published == Count(statuses, PUBLISHED)
        failed == Count(statuses, FAILED)
        publishing == Count(statuses, PUBLISHING)
    IN  IF total = 0 THEN current
        ELSE IF published = total THEN P_PUBLISHED
        ELSE IF failed = total THEN P_FAILED
        ELSE IF published > 0 /\ published + failed = total THEN P_PARTIAL_PUBLISHED
        ELSE IF publishing > 0 THEN P_PUBLISHING
        ELSE current

\* self.channel_posts.all(), the status column
StatusesOf(ps) == [pk \in DOMAIN ps |-> ps[pk].status]

----------------------------------------------------------------------------
(* The bot gateway's answers to send_message_sync. *)

\* codes of TelegramBotGatewayError
GatewayCodes == {"TELEGRAM_RATE_LIMIT", "TELEGRAM_UNAVAILABLE", "TIMEOUT",
                 "FORBIDDEN"}

\* e.code in ("TELEGRAM_RATE_LIMIT", "TELEGRAM_UNAVAILABLE", "TIMEOUT")
IsTransient(code) == code \in {"TELEGRAM_RATE_LIMIT", "TELEGRAM_UNAVAILABLE", "TIMEOUT"}

\* error_msg = f"[{e.code}] {e.message}"
ErrorMsg(code) == "[" \o code \o "] gateway said no"

\* an answer: a message id, no message id, a gateway error, a transport exception
SendAnswers ==
    {[kind |-> "ok", code |-> ""], [kind |-> "none", code |-> ""],
     [kind |-> "exception", code |-> ""]}
    \cup {[kind |-> "error", code |-> c] : c \in GatewayCodes}

\* the gateway errors alone
ErrorAnswers == {a \in SendAnswers : a.kind = "error"}

\* the answers of a gateway that is down: transient errors only
TransientAnswers == {a \in ErrorAnswers : IsTransient(a.code)}

\* one answer of each kind the task tells apart, but for the missing message id
MainAnswers ==
    {[kind |-> "ok", code |-> ""], [kind |-> "exception", code |-> ""],
     [kind |-> "error", code |-> "TIMEOUT"], [kind |-> "error", code |-> "FORBIDDEN"]}

\* idempotency_key = f"post-{post.pk}-{post.updated_at.isoformat()}"
IdempotencyKey(pk, updated_at) == <<pk, updated_at>>

----------------------------------------------------------------------------
(* ChannelPost methods, as changes of the row posts[pk]. *)

\* is_ready_for_publish
is_ready_for_publish(p) ==
    (p.text_markdown # "" \/ p.text_telegram_html # "") /\ channels[p.channel].bot_can_post

\* mark_published that leaves error_message as it was
mark_published_keeps_error(p, message_id) ==
    [p EXCEPT !.status = PUBLISHED, !.telegram_message_id = message_id,
              !.published_at = TRUE, !.updated_at = now]

\* mark_published, up to its save()
MarkPublishedRow(p, message_id) ==
    [p EXCEPT !.status = PUBLISHED, !.telegram_message_id = message_id,
              !.published_at = TRUE, !.error_message = "", !.updated_at = now]

\* mark_failed that records no message
mark_failed_without_message(p, msg) ==
    [p EXCEPT !.status = FAILED, !.updated_at = now]

\* mark_failed that also forgets the remote message
mark_failed_clears_message_id(p, msg) ==
    [p EXCEPT !.status = FAILED, !.error_message = msg, !.telegram_message_id = "",
              !.updated_at = now]

\* mark_failed, up to its save()
MarkFailedRow(p, msg) ==
    [p EXCEPT !.status = FAILED, !.error_message = msg, !.updated_at = now]

\* convert_to_telegram_html
ConvertRow(p) ==
    IF p.text_markdown # ""
    THEN [p EXCEPT !.text_telegram_html = markdown_to_telegram_html(p.text_markdown),
                   !.updated_at = now]
    ELSE p

----------------------------------------------------------------------------
(* publish_channel_post, a Celery task with max_retries=3. *)

PublishMsg(pk, r) == [task |-> "publish_channel_post", pk |-> pk, retries |-> r]

\* a retry that queues nothing
retry_dropped(q, pk, r) == q

\* self.retry(exc=e): the task is queued again unless request.retries has reached
\* max_retries, and then the exception is raised out of the task.
Retry(q, pk, r) == IF r < MaxRetries THEN q \cup {PublishMsg(pk, r + 1)} ELSE q

\* The worker's objects while it runs the task: the ChannelPost it loaded with
\* select_related("channel", "multi_post"), so the parent's status as of the load.
Running(pc, pk, r, p, mpStatus, after) ==
    [pc |-> pc, pk |-> pk, retries |-> r, html |-> p.text_telegram_html,
     updated_at |-> p.updated_at, mp_status |-> mpStatus, seen |-> <<>>,
     after |-> after]

\* Lines 228-250: load, the permission and content checks, status -> publishing.
PublishStartAny(w) ==
    /\ workers[w].pc = "idle"
    /\ \A v \in Workers : v < w => workers[v].pc # "idle"
    /\ \E m \in queue :
         /\ m.task = "publish_channel_post"
         /\ queue' = queue \ {m}
         /\ LET p == posts[m.pk] IN
            IF ~channels[p.channel].bot_can_post
            THEN LET f == MarkFailedRow(p, "Bot does not have posting permissions") IN
                 /\ posts' = [posts EXCEPT ![m.pk] = f]
                 /\ workers' = [workers EXCEPT ![w] =
                        Running("update_status", m.pk, m.retries, f, parent.status, "return")]
            ELSE IF p.text_telegram_html = "" /\ p.text_markdown = ""
            THEN LET f == MarkFailedRow(p, "No content to publish") IN
                 /\ posts' = [posts EXCEPT ![m.pk] = f]
                 /\ workers' = [workers EXCEPT ![w] =
                        Running("update_status", m.pk, m.retries, f, parent.status, "return")]
            ELSE LET c == IF p.text_telegram_html = "" THEN ConvertRow(p) ELSE p
                     s == [c EXCEPT !.status = PUBLISHING, !.updated_at = now] IN
                 /\ posts' = [posts EXCEPT ![m.pk] = s]
                 /\ workers' = [workers EXCEPT ![w] =
                        Running("send", m.pk, m.retries, s, parent.status, "return")]
    /\ UNCHANGED <<channels, chanOrder, parent, now, gateway, requests>>

\* the task started while no other task runs
PublishStart(w) == (\A v \in Workers : workers[v].pc = "idle") /\ PublishStartAny(w)

\* Lines 252-319: the send call and what the task does with its answer, up to
\* the save of the variant's row.
PublishSendAnswer(w, a) ==
    /\ workers[w].pc = "send"
    /\   LET t == workers[w]
             p == posts[t.pk]
             call == [pk |-> t.pk, key |-> IdempotencyKey(t.pk, t.updated_at),
                      text |-> t.html]
         IN
         /\ gateway' = gateway \cup {call}
         /\ CASE a.kind = "ok" ->
                   /\ posts' = [posts EXCEPT ![t.pk] = MarkPublishedRow(p, "msg")]
                   /\ workers' = [workers EXCEPT ![w].pc = "update_status"]
                   /\ UNCHANGED queue
              [] a.kind = "none" ->
                   /\ posts' = [posts EXCEPT ![t.pk] =
                          MarkFailedRow(p, "No message ID received from Telegram")]
                   /\ workers' = [workers EXCEPT ![w].pc = "update_status"]
                   /\ UNCHANGED queue
              [] a.kind = "error" /\ IsTransient(a.code) ->
                   /\ posts' = [posts EXCEPT ![t.pk] =
                          [p EXCEPT !.status = PENDING_PUBLISH,
                                    !.error_message = "Retrying: " \o ErrorMsg(a.code),
                                    !.updated_at = now]]
                   /\ queue' = Retry(queue, t.pk, t.retries)
                   /\ workers' = [workers EXCEPT ![w] = Idle]
              [] a.kind = "error" /\ ~IsTransient(a.code) ->
                   /\ posts' = [posts EXCEPT ![t.pk] = MarkFailedRow(p, ErrorMsg(a.code))]
                   /\ workers' = [workers EXCEPT ![w].pc = "update_status"]
                   /\ UNCHANGED queue
              [] a.kind = "exception" ->
                   /\ posts' = [posts EXCEPT ![t.pk] = MarkFailedRow(p, "connection reset")]
                   /\ workers' = [workers EXCEPT ![w].pc = "update_status",
                                                 ![w].after = "retry"]
                   /\ UNCHANGED queue
    /\ UNCHANGED <<channels, chanOrder, parent, now, requests>>

\* the send step, for a gateway that answers with one of answers
PublishSend(w, answers) == \E a \in answers : PublishSendAnswer(w, a)

\* update_status, lines 170-190: the count queries and the new self.status of
\* the worker's MultiChannelPost object.
UpdateStatusRead(w) ==
    /\ workers[w].pc = "update_status"
    /\ workers' = [workers EXCEPT
           ![w].pc = "update_status_save",
           ![w].seen = StatusesOf(posts)]
    /\ UNCHANGED <<channels, chanOrder, parent, posts, queue, now, gateway, requests>>

\* update_status, line 192: self.save(update_fields=["status", "updated_at"]),
\* then the rest of the task: return, or self.retry after a transport exception.
UpdateStatusSave(w) ==
    /\ workers[w].pc = "update_status_save"
    /\ LET t == workers[w]
           new == update_status(t.seen, t.mp_status) IN
       /\ parent' = [parent EXCEPT !.status = new]
       /\ queue' = IF t.after = "retry" THEN Retry(queue, t.pk, t.retries) ELSE queue
    /\ workers' = [workers EXCEPT ![w] = Idle]
    /\ UNCHANGED <<channels, chanOrder, posts, now, gateway, requests>>

----------------------------------------------------------------------------
(* What queues a publish task or sets a variant publishing. *)

\* ChannelPostViewSet.publish
ViewPublish ==
    /\ requests < MaxRequests
    /\ requests' = requests + 1
    /\ \E pk \in DOMAIN posts :
         /\ is_ready_for_publish(posts[pk])
         /\ queue' = queue \cup {PublishMsg(pk, 0)}
    /\ UNCHANGED <<channels, chanOrder, parent, posts, workers, now, gateway>>

\* publish without its readiness test
publish_unchecked(pk) ==
    [raised |-> "",
     row |-> [posts[pk] EXCEPT !.status = PUBLISHING, !.updated_at = now],
     queued |-> {PublishMsg(pk, 0)}]

\* ChannelPost.publish on the row pk: the exception it raises, if any, the row
\* it leaves and the tasks it queues
publish(pk) ==
    IF ~is_ready_for_publish(posts[pk])
    THEN [raised |-> "ValueError: Post is not ready for publishing",
          row |-> posts[pk],
          queued |-> {}]
    ELSE [raised |-> "",
          row |-> [posts[pk] EXCEPT !.status = PUBLISHING, !.updated_at = now],
          queued |-> {PublishMsg(pk, 0)}]

\* a call of ChannelPost.publish on the row pk
ModelPublishOn(pk) ==
    /\ requests < MaxRequests
    /\ requests' = requests + 1
    /\ posts' = [posts EXCEPT ![pk] = publish(pk).row]
    /\ queue' = queue \cup publish(pk).queued
    /\ UNCHANGED <<channels, chanOrder, parent, workers, now, gateway>>

\* ChannelPost.publish
ModelPublish == \E pk \in DOMAIN posts : ModelPublishOn(pk)

\* ChannelPostAdmin.publish_selected, for one selected row
AdminPublishSelected ==
    /\ requests < MaxRequests
    /\ requests' = requests + 1
    /\ \E pk \in DOMAIN posts :
         /\ posts[pk].status \in {DRAFT, PENDING_PUBLISH, FAILED}
         /\ queue' = queue \cup {PublishMsg(pk, 0)}
    /\ UNCHANGED <<channels, chanOrder, parent, posts, workers, now, gateway>>

----------------------------------------------------------------------------
(* Translation: request_translations and translate_channel_post of posts/tasks.py. *)

TranslateMsg(pk, r) == [task |-> "translate_channel_post", pk |-> pk, retries |-> r]

\* what translate_sync returns for a text and a target language
Translation(text, lang) == lang \o ":" \o text

\* e.code in ("LLM_RATE_LIMIT", "LLM_UNAVAILABLE", "LLM_TIMEOUT")
IsTransientLLM(code) == code \in {"LLM_RATE_LIMIT", "LLM_UNAVAILABLE", "LLM_TIMEOUT"}

\* error_msg = f"[{e.code}] {e.message}"
LLMErrorMsg(code) == "[" \o code \o "] translation service said no"

\* what translate_sync does: a translation, another exception, a transient
\* and a permanent TranslationError
MainTranslateAnswers ==
    {[kind |-> "ok", code |-> ""], [kind |-> "exception", code |-> ""],
     [kind |-> "error", code |-> "LLM_TIMEOUT"],
     [kind |-> "error", code |-> "INVALID_REQUEST"]}

\* the language of the parent's primary channel
SourceLanguage == channels[parent.primary_channel].language

\* MultiChannelPostViewSet.request_translations
ViewRequestTranslations ==
    /\ requests < MaxRequests
    /\ requests' = requests + 1
    /\ parent.exists
    /\ queue' = queue \cup {RequestTranslationsMsg}
    /\ UNCHANGED <<channels, chanOrder, parent, posts, workers, now, gateway>>

\* request_translations without its status filter
request_translations_any_status ==
    /\ RequestTranslationsMsg \in queue
    /\ queue' = (queue \ {RequestTranslationsMsg}) \cup
           {TranslateMsg(pk, 0) : pk \in
               {k \in DOMAIN posts :
                  /\ posts[k].source_type = AUTO_TRANSLATED
                  /\ posts[k].language # SourceLanguage}}
    /\ UNCHANGED <<channels, chanOrder, parent, posts, workers, now, gateway, requests>>

\* request_translations: one translate_channel_post per auto-translated variant
\* pending translation whose language is not the primary channel's.
RequestTranslations ==
    /\ RequestTranslationsMsg \in queue
    /\ queue' = (queue \ {RequestTranslationsMsg}) \cup
           {TranslateMsg(pk, 0) : pk \in
               {k \in DOMAIN posts :
                  /\ posts[k].source_type = AUTO_TRANSLATED
                  /\ posts[k].status = PENDING_TRANSLATION
                  /\ posts[k].language # SourceLanguage}}
    /\ UNCHANGED <<channels, chanOrder, parent, posts, workers, now, gateway, requests>>

\* the rows translate_channel_post writes when it stops before the service call
TranslateEarlyRow(p) ==
    IF parent.primary_text_markdown = ""
    THEN [p EXCEPT !.error_message = "No source text to translate",
                   !.status = DRAFT, !.updated_at = now]
    ELSE IF SourceLanguage = NoLanguage
    THEN [p EXCEPT !.error_message = "Source channel has no language set",
                   !.status = DRAFT, !.updated_at = now]
    ELSE IF p.language = NoLanguage
    THEN [p EXCEPT !.error_message = "Target channel has no language set",
                   !.status = DRAFT, !.updated_at = now]
    ELSE ConvertRow([p EXCEPT !.text_markdown = parent.primary_text_markdown,
                              !.status = DRAFT, !.updated_at = now])

\* whether translate_channel_post reaches the service call for this row
NeedsService(p) ==
    /\ parent.primary_text_markdown # ""
    /\ SourceLanguage # NoLanguage
    /\ p.language # NoLanguage
    /\ SourceLanguage # p.language

\* the row after a successful translate_sync
TranslatedRow(p) ==
    ConvertRow([p EXCEPT !.text_markdown = Translation(parent.primary_text_markdown, p.language),
                         !.translation_requested = TRUE,
                         !.translation_received_at = TRUE,
                         !.status = DRAFT, !.error_message = "", !.updated_at = now])

\* translate_channel_post, for a translation service that answers with one of
\* answers. The task and its service call are one step: it writes no row but
\* its own, and only the fields it has just set.
TranslateChannelPost(answers) ==
    \E m \in queue :
      /\ m.task = "translate_channel_post"
      /\ LET p == posts[m.pk] IN
         IF p.source_type = PRIMARY
         THEN /\ queue' = queue \ {m}
              /\ UNCHANGED posts
         ELSE IF ~NeedsService(p)
         THEN /\ queue' = queue \ {m}
              /\ posts' = [posts EXCEPT ![m.pk] = TranslateEarlyRow(p)]
         ELSE \E a \in answers :
              CASE a.kind = "ok" ->
                     /\ queue' = queue \ {m}
                     /\ posts' = [posts EXCEPT ![m.pk] = TranslatedRow(p)]
                [] a.kind = "error" /\ IsTransientLLM(a.code) ->
                     /\ posts' = [posts EXCEPT ![m.pk] =
                            [p EXCEPT !.error_message = "Retrying: " \o LLMErrorMsg(a.code),
                                      !.updated_at = now]]
                     /\ queue' = (queue \ {m}) \cup
                            (IF m.retries < MaxRetries
                             THEN {TranslateMsg(m.pk, m.retries + 1)} ELSE {})
                [] a.kind = "error" /\ ~IsTransientLLM(a.code) ->
                     /\ queue' = queue \ {m}
                     /\ posts' = [posts EXCEPT ![m.pk] =
                            [p EXCEPT !.status = DRAFT,
                                      !.error_message = LLMErrorMsg(a.code),
                                      !.updated_at = now]]
                [] OTHER ->
                     /\ posts' = [posts EXCEPT ![m.pk] =
                            [p EXCEPT !.error_message = "Translation failed: connection reset",
                                      !.updated_at = now]]
                     /\ queue' = (queue \ {m}) \cup
                            (IF m.retries < MaxRetries
                             THEN {TranslateMsg(m.pk, m.retries + 1)} ELSE {})
      /\ UNCHANGED <<channels, chanOrder, parent, workers, now, gateway, requests>>

\* request_translation without its test of the source type
view_request_translation_any ==
    /\ requests < MaxRequests
    /\ requests' = requests + 1
    /\ \E pk \in DOMAIN posts :
         queue' = queue \cup {TranslateMsg(pk, 0)}
    /\ UNCHANGED <<channels, chanOrder, parent, posts, workers, now, gateway>>

\* ChannelPostViewSet.request_translation
ViewRequestTranslation ==
    /\ requests < MaxRequests
    /\ requests' = requests + 1
    /\ \E pk \in DOMAIN posts :
         /\ posts[pk].source_type # PRIMARY
         /\ queue' = queue \cup {TranslateMsg(pk, 0)}
    /\ UNCHANGED <<channels, chanOrder, parent, posts, workers, now, gateway>>

----------------------------------------------------------------------------
(* Batch translation: apps/integrations/translation/tasks.py. *)

\* translate_multi_post: @shared_task(bind=True, max_retries=2, ...)
MaxBatchRetries == 2

BatchMsg(r) == [task |-> "translate_multi_post", pk |-> 0, retries |-> r]

IntTranslateMsg(pk, r) ==
    [task |-> "translation.translate_channel_post", pk |-> pk, retries |-> r]

\* the language codes the translation service may put in a batch result
ReturnedLanguages == {"ru", "de", "fr"}

\* what batch_translate_sync does: a dict keyed by language code (its values
\* are Translation(text, code)), a TranslationError, or another exception
BatchAnswers ==
    {[kind |-> "ok", code |-> "", translations |-> t] : t \in SUBSET ReturnedLanguages}
    \cup {[kind |-> "error", code |-> c, translations |-> {}] :
            c \in {"LLM_UNAVAILABLE", "INVALID_REQUEST"}}
    \cup {[kind |-> "exception", code |-> "", translations |-> {}]}

\* pending_posts: status pending_translation, translation_received_at null,
\* language other than the source language
BatchPending ==
    {k \in DOMAIN posts :
       /\ posts[k].status = PENDING_TRANSLATION
       /\ ~posts[k].translation_received_at
       /\ posts[k].language # SourceLanguage}

\* target_languages, as a set
TargetLanguages == {posts[k].language : k \in BatchPending} \ {NoLanguage}

\* post_by_language: the first pending post of each language code. The channels
\* of a group have different languages (unique_language_per_group), so it is
\* the only one.
post_by_language(code) ==
    CHOOSE k \in BatchPending :
       /\ posts[k].language = code
       /\ \A j \in BatchPending : posts[j].language = code => k <= j

\* the early returns of translate_multi_post: no source text or language, no
\* pending post, no target language
BatchSkipped ==
    \/ parent.primary_text_markdown = ""
    \/ SourceLanguage = NoLanguage
    \/ BatchPending = {}
    \/ TargetLanguages = {}

\* the row of a language the result holds
BatchTranslatedRow(p) ==
    [p EXCEPT !.text_markdown = Translation(parent.primary_text_markdown, p.language),
              !.source_type = AUTO_TRANSLATED,
              !.status = DRAFT,
              !.translation_received_at = TRUE,
              !.error_message = "",
              !.updated_at = now]

\* the row of a language the result does not hold
BatchMissingRow(p) ==
    [p EXCEPT !.error_message = "Translation to " \o p.language \o " failed",
              !.updated_at = now]

\* translate_multi_post, the batch call answered with a
TranslateMultiPostAnswer(a) ==
    /\ \E m \in queue :
         /\ m.task = "translate_multi_post"
         /\ IF BatchSkipped
            THEN /\ queue' = queue \ {m}
                 /\ UNCHANGED posts
            ELSE LET mine == {post_by_language(c) : c \in TargetLanguages} IN
                 CASE a.kind = "ok" ->
                        /\ queue' = queue \ {m}
                        /\ posts' = [k \in DOMAIN posts |->
                              IF k \notin mine THEN posts[k]
                              ELSE IF posts[k].language \in a.translations
                              THEN BatchTranslatedRow(posts[k])
                              ELSE BatchMissingRow(posts[k])]
                   [] a.kind = "error" /\ IsTransientLLM(a.code) ->
                        /\ queue' = (queue \ {m}) \cup
                               (IF m.retries < MaxBatchRetries
                                THEN {BatchMsg(m.retries + 1)} ELSE {})
                        /\ UNCHANGED posts
                   [] OTHER ->
                        /\ queue' = (queue \ {m}) \cup
                               {IntTranslateMsg(k, 0) : k \in BatchPending}
                        /\ UNCHANGED posts
    /\ UNCHANGED <<channels, chanOrder, parent, workers, now, gateway, requests>>

TranslateMultiPost == \E a \in BatchAnswers : TranslateMultiPostAnswer(a)

\* process_pending_translations, the periodic task
ProcessPendingTranslations ==
    LET pending == {k \in DOMAIN posts :
                      /\ posts[k].status = PENDING_TRANSLATION
                      /\ ~posts[k].translation_requested} IN
    /\ pending # {}
    /\ posts' = [k \in DOMAIN posts |->
                   IF k \in pending
                   THEN [posts[k] EXCEPT !.translation_requested = TRUE,
                                         !.updated_at = now]
                   ELSE posts[k]]
    /\ queue' = queue \cup {BatchMsg(0)}
    /\ UNCHANGED <<channels, chanOrder, parent, workers, now, gateway, requests>>

\* what the single-post task meets: the service unhealthy, a translation, a
\* TranslationError, another exception
IntTranslateAnswers ==
    {[kind |-> "unhealthy", code |-> ""], [kind |-> "ok", code |-> ""],
     [kind |-> "exception", code |-> ""],
     [kind |-> "error", code |-> "LLM_TIMEOUT"],
     [kind |-> "error", code |-> "INVALID_REQUEST"]}

\* the retry message self.retry sends unless the ceiling is reached
IntRetry(m) == IF m.retries < MaxRetries THEN {IntTranslateMsg(m.pk, m.retries + 1)} ELSE {}

\* translate_channel_post of the translation integration, the fallback of the
\* batch task. Its self.retry for an unhealthy service is raised inside the try
\* block, so the handler of Exception records it on the row.
IntTranslateChannelPost ==
    /\ \E m \in queue :
         /\ m.task = "translation.translate_channel_post"
         /\ LET p == posts[m.pk] IN
            IF p.status # PENDING_TRANSLATION \/ p.translation_received_at
            THEN /\ queue' = queue \ {m}
                 /\ UNCHANGED posts
            ELSE IF parent.primary_text_markdown = ""
            THEN /\ queue' = queue \ {m}
                 /\ posts' = [posts EXCEPT ![m.pk] =
                        [p EXCEPT !.status = DRAFT,
                                  !.error_message = "No source text to translate",
                                  !.updated_at = now]]
            ELSE IF SourceLanguage = NoLanguage
            THEN /\ queue' = queue \ {m}
                 /\ posts' = [posts EXCEPT ![m.pk] =
                        [p EXCEPT !.status = DRAFT,
                                  !.error_message = "Source channel has no language set",
                                  !.updated_at = now]]
            ELSE IF p.language = NoLanguage
            THEN /\ queue' = queue \ {m}
                 /\ posts' = [posts EXCEPT ![m.pk] =
                        [p EXCEPT !.status = DRAFT,
                                  !.error_message = "Channel has no language set",
                                  !.updated_at = now]]
            ELSE IF SourceLanguage = p.language
            THEN /\ queue' = queue \ {m}
                 /\ posts' = [posts EXCEPT ![m.pk] =
                        [p EXCEPT !.text_markdown = parent.primary_text_markdown,
                                  !.source_type = PRIMARY,
                                  !.status = DRAFT,
                                  !.updated_at = now]]
            ELSE \E a \in IntTranslateAnswers :
                 CASE a.kind = "ok" ->
                        /\ queue' = queue \ {m}
                        /\ posts' = [posts EXCEPT ![m.pk] = BatchTranslatedRow(p)]
                   [] a.kind = "unhealthy" ->
                        /\ queue' = (queue \ {m}) \cup IntRetry(m)
                        /\ posts' = [posts EXCEPT ![m.pk] =
                               [p EXCEPT !.status = DRAFT,
                                         !.error_message = "Translation error: Retry in 30s",
                                         !.updated_at = now]]
                   [] a.kind = "error" /\ IsTransientLLM(a.code) ->
                        /\ queue' = (queue \ {m}) \cup IntRetry(m)
                        /\ posts' = [posts EXCEPT ![m.pk] =
                               [p EXCEPT !.error_message = "Retrying: " \o LLMErrorMsg(a.code),
                                         !.updated_at = now]]
                   [] a.kind = "error" /\ ~IsTransientLLM(a.code) ->
                        /\ queue' = queue \ {m}
                        /\ posts' = [posts EXCEPT ![m.pk] =
                               [p EXCEPT !.status = DRAFT,
                                         !.error_message = LLMErrorMsg(a.code),
                                         !.updated_at = now]]
                   [] OTHER ->
                        /\ queue' = queue \ {m}
                        /\ posts' = [posts EXCEPT ![m.pk] =
                               [p EXCEPT !.status = DRAFT,
                                         !.error_message = "Translation error: connection reset",
                                         !.updated_at = now]]
    /\ UNCHANGED <<channels, chanOrder, parent, workers, now, gateway, requests>>

\* time passes
Tick ==
    /\ now < MaxClock
    /\ now' = now + 1
    /\ UNCHANGED <<channels, chanOrder, parent, posts, queue, workers, gateway, requests>>

----------------------------------------------------------------------------
(* The parent's own operations: mark_ready, publish_all, publish_ready. *)

PublishMultiMsg == [task |-> "publish_multi_post", pk |-> 0, retries |-> 0]

PublishReadyMsg == [task |-> "publish_ready_channel_posts", pk |-> 0, retries |-> 0]

\* mark_ready without its test of the status
mark_ready_from_any(mp) ==
    [saved |-> [mp EXCEPT !.status = P_READY_FOR_PUBLISH], http |-> 200]

\* mark_ready on the parent mp: the row it leaves and the HTTP status of its
\* response
mark_ready(mp) ==
    IF mp.status = P_DRAFT
    THEN [saved |-> [mp EXCEPT !.status = P_READY_FOR_PUBLISH], http |-> 200]
    ELSE [saved |-> mp, http |-> 400]

\* MultiChannelPostViewSet.mark_ready: draft -> ready_for_publish, or a 400
MarkReady ==
    /\ requests < MaxRequests
    /\ requests' = requests + 1
    /\ parent.exists
    /\ parent' = mark_ready(parent).saved
    /\ UNCHANGED <<channels, chanOrder, posts, queue, workers, now, gateway>>

\* MultiChannelPostViewSet.publish_all
ViewPublishAll ==
    /\ requests < MaxRequests
    /\ requests' = requests + 1
    /\ parent.exists
    /\ queue' = queue \cup {PublishMultiMsg}
    /\ UNCHANGED <<channels, chanOrder, parent, posts, workers, now, gateway>>

\* MultiChannelPostViewSet.publish_ready
ViewPublishReady ==
    /\ requests < MaxRequests
    /\ requests' = requests + 1
    /\ parent.exists
    /\ queue' = queue \cup {PublishReadyMsg}
    /\ UNCHANGED <<channels, chanOrder, parent, posts, workers, now, gateway>>

\* posts_to_publish of publish_multi_post without the exclusion of published rows
publish_all_targets_with_published ==
    {k \in DOMAIN posts :
       /\ channels[posts[k].channel].is_active
       /\ channels[posts[k].channel].bot_can_post}

\* posts_to_publish of publish_multi_post: filter(channel__is_active=True,
\* channel__bot_can_post=True).exclude(status=PUBLISHED)
PublishAllTargets ==
    {k \in DOMAIN posts :
       /\ channels[posts[k].channel].is_active
       /\ channels[posts[k].channel].bot_can_post
       /\ ~(posts[k].status = PUBLISHED)}

\* publish_multi_post: convert what has markdown and no HTML, queue a publish
\* task per target, save the parent as publishing.
PublishMultiPost ==
    /\ PublishMultiMsg \in queue
    /\ posts' = [k \in DOMAIN posts |->
                   IF posts[k].text_markdown # "" /\ posts[k].text_telegram_html = ""
                   THEN ConvertRow(posts[k]) ELSE posts[k]]
    /\ queue' = (queue \ {PublishMultiMsg}) \cup {PublishMsg(k, 0) : k \in PublishAllTargets}
    /\ parent' = [parent EXCEPT !.status = P_PUBLISHING]
    /\ UNCHANGED <<channels, chanOrder, workers, now, gateway, requests>>

\* posts_to_publish of publish_ready_channel_posts without its status filter
publish_ready_targets_any_status ==
    {k \in DOMAIN posts :
       /\ channels[posts[k].channel].is_active
       /\ channels[posts[k].channel].bot_can_post
       /\ ~(posts[k].text_markdown = "")}

\* posts_to_publish of publish_ready_channel_posts: filter(channel__is_active=True,
\* channel__bot_can_post=True, status__in=[DRAFT, PENDING_PUBLISH])
\* .exclude(text_markdown="")
PublishReadyTargets ==
    {k \in DOMAIN posts :
       /\ channels[posts[k].channel].is_active
       /\ channels[posts[k].channel].bot_can_post
       /\ posts[k].status \in {DRAFT, PENDING_PUBLISH}
       /\ ~(posts[k].text_markdown = "")}

\* publish_ready_channel_posts: per target, convert if there is no HTML and
\* queue a publish task.
PublishReadyChannelPosts ==
    /\ PublishReadyMsg \in queue
    /\ posts' = [k \in DOMAIN posts |->
                   IF k \in PublishReadyTargets /\ posts[k].text_telegram_html = ""
                   THEN ConvertRow(posts[k]) ELSE posts[k]]
    /\ queue' = (queue \ {PublishReadyMsg}) \cup {PublishMsg(k, 0) : k \in PublishReadyTargets}
    /\ UNCHANGED <<channels, chanOrder, parent, workers, now, gateway, requests>>

\* ChannelAdmin: the is_active box of a channel is unticked.
AdminDeactivateChannel ==
    /\ requests < MaxRequests
    /\ requests' = requests + 1
    /\ \E c \in Channels :
         /\ channels[c].is_active
         /\ channels' = [channels EXCEPT ![c].is_active = FALSE]
    /\ UNCHANGED <<chanOrder, parent, posts, queue, workers, now, gateway>>

----------------------------------------------------------------------------
(* Editing a variant, and deleting its message. *)

\* ChannelPostUpdateSerializer.update with text_markdown in the request
edit_text_as_draft ==
    /\ requests < MaxRequests
    /\ requests' = requests + 1
    /\ \E pk \in DOMAIN posts :
         posts' = [posts EXCEPT ![pk].text_markdown = "Edited",
                                ![pk].manually_edited = TRUE,
                                ![pk].status = DRAFT,
                                ![pk].updated_at = now]
    /\ UNCHANGED <<channels, chanOrder, parent, queue, workers, now, gateway>>

\* ChannelPostUpdateSerializer.update with text_markdown in the request
EditText ==
    /\ requests < MaxRequests
    /\ requests' = requests + 1
    /\ \E pk \in DOMAIN posts :
         posts' = [posts EXCEPT ![pk].text_markdown = "Edited",
                                ![pk].manually_edited = TRUE,
                                ![pk].updated_at = now]
    /\ UNCHANGED <<channels, chanOrder, parent, queue, workers, now, gateway>>

DeleteMsg(pk, r) == [task |-> "delete_channel_post", pk |-> pk, retries |-> r]

\* delete_channel_post.delay(pk)
SubmitDelete ==
    /\ requests < MaxRequests
    /\ requests' = requests + 1
    /\ \E pk \in DOMAIN posts : queue' = queue \cup {DeleteMsg(pk, 0)}
    /\ UNCHANGED <<channels, chanOrder, parent, posts, workers, now, gateway>>

\* delete_message_sync: deleted, not deleted, a gateway error or exception the
\* task retries, a gateway error it only logs
DeleteAnswers == {"success", "refused", "retry", "error"}

\* the row a confirmed deletion leaves without its message id
deleted_row_keeps_message_id(p) ==
    [p EXCEPT !.status = DRAFT, !.published_at = FALSE, !.updated_at = now]

\* lines 415-424: the row a confirmed deletion saves
DeletedRow(p) ==
    [p EXCEPT !.telegram_message_id = "", !.status = DRAFT,
              !.published_at = FALSE, !.updated_at = now]

\* delete_channel_post on the queued message m, the gateway answering a
DeleteChannelPostOn(m, a) ==
    /\ m \in queue
    /\ m.task = "delete_channel_post"
    /\ LET p == posts[m.pk] IN
       IF p.telegram_message_id = "" \/ ~channels[p.channel].bot_can_delete
       THEN /\ queue' = queue \ {m}
            /\ UNCHANGED posts
       ELSE CASE a = "success" ->
                   /\ queue' = queue \ {m}
                   /\ posts' = [posts EXCEPT ![m.pk] = DeletedRow(p)]
              [] a = "retry" ->
                   /\ queue' = (queue \ {m}) \cup
                          (IF m.retries < MaxRetries
                           THEN {DeleteMsg(m.pk, m.retries + 1)} ELSE {})
                   /\ UNCHANGED posts
              [] OTHER ->
                   /\ queue' = queue \ {m}
                   /\ UNCHANGED posts
    /\ UNCHANGED <<channels, chanOrder, parent, workers, now, gateway, requests>>

\* delete_channel_post
DeleteChannelPost ==
    \E m \in queue, a \in DeleteAnswers : DeleteChannelPostOn(m, a)

EditMsg(pk, r) == [task |-> "edit_channel_post", pk |-> pk, retries |-> r]

\* edit_channel_post.delay(pk)
SubmitEdit ==
    /\ requests < MaxRequests
    /\ requests' = requests + 1
    /\ \E pk \in DOMAIN posts : queue' = queue \cup {EditMsg(pk, 0)}
    /\ UNCHANGED <<channels, chanOrder, parent, posts, workers, now, gateway>>

\* edit_message_sync: edited, not edited or a gateway error the task only logs,
\* a gateway error or exception the task retries
EditAnswers == {"success", "refused", "retry"}

\* edit_channel_post that renders the HTML of every variant of the parent
edit_channel_post_converts_all(m, a) ==
    /\ m \in queue
    /\ m.task = "edit_channel_post"
    /\ LET p == posts[m.pk] IN
       IF p.telegram_message_id = "" \/ ~channels[p.channel].bot_can_edit
          \/ (p.text_telegram_html = "" /\ p.text_markdown = "")
       THEN /\ queue' = queue \ {m}
            /\ UNCHANGED posts
       ELSE /\ posts' = [k \in DOMAIN posts |->
                          IF posts[k].text_telegram_html = ""
                          THEN ConvertRow(posts[k]) ELSE posts[k]]
            /\ queue' = (queue \ {m}) \cup
                   (IF a = "retry" /\ m.retries < MaxRetries
                    THEN {EditMsg(m.pk, m.retries + 1)} ELSE {})
    /\ UNCHANGED <<channels, chanOrder, parent, workers, now, gateway, requests>>

\* edit_channel_post on the queued message m, the gateway answering a: the
\* task writes the row only to render HTML that is missing.
EditChannelPostOn(m, a) ==
    /\ m \in queue
    /\ m.task = "edit_channel_post"
    /\ LET p == posts[m.pk] IN
       IF p.telegram_message_id = "" \/ ~channels[p.channel].bot_can_edit
          \/ (p.text_telegram_html = "" /\ p.text_markdown = "")
       THEN /\ queue' = queue \ {m}
            /\ UNCHANGED posts
       ELSE /\ posts' = [posts EXCEPT ![m.pk] =
                          IF p.text_telegram_html = "" THEN ConvertRow(p) ELSE p]
            /\ queue' = (queue \ {m}) \cup
                   (IF a = "retry" /\ m.retries < MaxRetries
                    THEN {EditMsg(m.pk, m.retries + 1)} ELSE {})
    /\ UNCHANGED <<channels, chanOrder, parent, workers, now, gateway, requests>>

\* edit_channel_post
EditChannelPost ==
    \E m \in queue, a \in EditAnswers : EditChannelPostOn(m, a)

----------------------------------------------------------------------------
(* TranslationClient.translate_sync: apps/integrations/translation/client.py. *)

\* TranslationClient.__init__: max_retries: int = 3, retry_delay: float = 1.0
ClientMaxRetries == 3

ClientRetryDelay == 1

\* What one POST /api/v1/translate can end in: a translation, a
\* TranslationError with the service's code, or an exception of httpx or of
\* the parsing of the answer.
HttpOutcomes ==
    {[type |-> "ok", code |-> ""]}
    \cup {[type |-> "TranslationError", code |-> c] :
            c \in {"LLM_RATE_LIMIT", "LLM_UNAVAILABLE", "LLM_TIMEOUT", "INVALID_REQUEST"}}
    \cup {[type |-> t, code |-> ""] : t \in {"ConnectError", "ReadTimeout", "ConnectTimeout"}}

NoException == [type |-> "", code |-> ""]

\* _should_retry that retries after any error
should_retry_always(exception) == TRUE

\* _should_retry. No call of translate_sync raises httpx.HTTPStatusError: the
\* status is read by _handle_error_response, which raises TranslationError.
should_retry(exception) ==
    IF exception.type = "TranslationError"
    THEN exception.code \in {"LLM_RATE_LIMIT", "LLM_UNAVAILABLE", "LLM_TIMEOUT"}
    ELSE exception.type \in {"ConnectError", "ReadTimeout"}

\* last_exception for the error e: the TranslationError itself, or
\* TranslationError(str(e), code="INTERNAL_ERROR")
LastException(e) ==
    IF e.type = "TranslationError" THEN e
    ELSE [type |-> "TranslationError(" \o e.type \o ")", code |-> "INTERNAL_ERROR"]

\* A worker calls translate_sync(text, source_language, target_language):
\* last_exception = None, and the loop is at attempt 0.
TranslateSyncCall(w) ==
    /\ workers[w].pc = "idle"
    /\ \E lang \in {"ru", "de"} :
         workers' = [workers EXCEPT ![w] =
             [pc |-> "translate_sync", text |-> "Hello", target_language |-> lang,
              attempt |-> 0, posted |-> 0, slept |-> <<>>,
              last_exception |-> NoException, result |-> "",
              raised |-> NoException]]
    /\ UNCHANGED <<channels, chanOrder, parent, posts, queue, now, gateway, requests>>

\* One turn of for attempt in range(self.max_retries): the POST and the
\* handling of its outcome o; after the last turn, the raise below the loop.
TranslateSyncAttempt(w, o) ==
    /\ workers[w].pc = "translate_sync"
    /\ LET t == workers[w] IN
       IF t.attempt >= ClientMaxRetries
       THEN workers' = [workers EXCEPT ![w].pc = "raised",
                                      ![w].raised = t.last_exception]
       ELSE IF o.type = "ok"
       THEN workers' = [workers EXCEPT
                ![w].pc = "returned",
                ![w].posted = t.posted + 1,
                ![w].result = Translation(t.text, t.target_language)]
       ELSE IF should_retry(o) /\ t.attempt < ClientMaxRetries - 1
       THEN workers' = [workers EXCEPT
                ![w].posted = t.posted + 1,
                ![w].last_exception = LastException(o),
                ![w].slept = Append(t.slept, ClientRetryDelay * (2 ^ t.attempt)),
                ![w].attempt = t.attempt + 1]
       ELSE workers' = [workers EXCEPT
                ![w].pc = "raised",
                ![w].posted = t.posted + 1,
                ![w].last_exception = LastException(o),
                ![w].raised = LastException(o)]
    /\ UNCHANGED <<channels, chanOrder, parent, posts, queue, now, gateway, requests>>

\* The caller has the translation or the exception, and the worker is free.
TranslateSyncDone(w) ==
    /\ workers[w].pc \in {"returned", "raised"}
    /\ workers' = [workers EXCEPT ![w] = Idle]
    /\ UNCHANGED <<channels, chanOrder, parent, posts, queue, now, gateway, requests>>

----------------------------------------------------------------------------
(* Initial states. *)

Orders == {<<"c1", "c2", "c3">>, <<"c1", "c3", "c2">>, <<"c2", "c1", "c3">>,
           <<"c2", "c3", "c1">>, <<"c3", "c1", "c2">>, <<"c3", "c2", "c1">>}

ChannelRow(l, a, p, d) ==
    [language |-> l, is_active |-> a, bot_can_post |-> p, bot_can_delete |-> d,
     bot_can_edit |-> TRUE]

InitRest ==
    /\ parent = NoParent
    /\ posts = <<>>
    /\ queue = {}
    /\ workers = [w \in Workers |-> Idle]
    /\ now = 0
    /\ gateway = {}
    /\ requests = 0

\* Fan-out: any subset of the group's channels active, any queryset order.
InitFan ==
    /\ chanOrder \in Orders
    /\ \E act \in SUBSET Channels :
         channels = [c \in Channels |->
                       ChannelRow(CASE c = "c1" -> "en" [] c = "c2" -> "ru"
                                    [] OTHER -> "de",
                                  c \in act, TRUE, TRUE)]
    /\ InitRest

NextFan == CreatePost(Channels, Texts) \/ CreateChannelPostsAgain \/ ActivateChannel

SpecFan == InitFan /\ [][NextFan]_vars

\* The create endpoint on any group of channels.
NextCreate == ApiCreatePost \/ CreateChannelPostsAgain \/ ActivateChannel

SpecCreate == InitFan /\ [][NextCreate]_vars

\* A group of two active channels (the third is off), the second with or
\* without the can-post permission.
Init ==
    /\ chanOrder = <<"c1", "c2", "c3">>
    /\ \E cp \in BOOLEAN :
         channels = [c \in Channels |->
                       ChannelRow(CASE c = "c1" -> "en" [] c = "c2" -> "ru"
                                    [] OTHER -> "de",
                                  c # "c3", c = "c1" \/ cp, TRUE)]
    /\ InitRest

\* no worker is in the middle of a task
AllIdle == \A w \in Workers : workers[w].pc = "idle"

\* Every operation and task of the lifecycle, one at a time: a request or a
\* task starts when no task is running, and a running task runs to its end.
Next ==
    \/ AllIdle /\ CreatePost({"c1"}, Texts)
    \/ AllIdle /\ CreateChannelPostsAgain
    \/ AllIdle /\ ActivateChannel
    \/ AllIdle /\ ViewPublish
    \/ AllIdle /\ ModelPublish
    \/ AllIdle /\ AdminPublishSelected
    \/ AllIdle /\ ViewRequestTranslation
    \/ AllIdle /\ EditText
    \/ AllIdle /\ SubmitDelete
    \/ AllIdle /\ RequestTranslations
    \/ AllIdle /\ TranslateChannelPost(MainTranslateAnswers)
    \/ AllIdle /\ DeleteChannelPost
    \/ \E w \in Workers : PublishStart(w)
    \/ \E w \in Workers : PublishSend(w, SendAnswers)
    \/ \E w \in Workers : UpdateStatusRead(w)
    \/ \E w \in Workers : UpdateStatusSave(w)

Spec == Init /\ [][Next]_vars

\* The publish tasks of the variants on two workers, every interleaving of
\* their database accesses with each other and with the operator's requests.
OperatorPublish == ViewPublish \/ ModelPublish \/ AdminPublishSelected

NextConc ==
    \/ CreatePost({"c1"}, {"Hello"})
    \/ OperatorPublish
    \/ \E w \in Workers : PublishStartAny(w)
    \/ \E w \in Workers : PublishSend(w, MainAnswers)
    \/ \E w \in Workers : UpdateStatusRead(w)
    \/ \E w \in Workers : UpdateStatusSave(w)

SpecConc == Init /\ [][NextConc]_vars

\* A gateway that is down: every send is answered with a transient error,
\* while time passes between the attempts.
NextRetry ==
    \/ AllIdle /\ CreatePost({"c1"}, {"Hello"})
    \/ AllIdle /\ ViewPublish
    \/ AllIdle /\ AdminPublishSelected
    \/ Tick
    \/ \E w \in Workers : PublishStart(w)
    \/ \E w \in Workers : PublishSend(w, TransientAnswers)
    \/ \E w \in Workers : UpdateStatusRead(w)
    \/ \E w \in Workers : UpdateStatusSave(w)

SpecRetry == Init /\ [][NextRetry]_vars

\* A group of three active channels in three languages.
InitTr ==
    /\ chanOrder = <<"c1", "c2", "c3">>
    /\ channels = [c \in Channels |->
                     ChannelRow(CASE c = "c1" -> "en" [] c = "c2" -> "ru"
                                  [] OTHER -> "de",
                                TRUE, TRUE, TRUE)]
    /\ InitRest

\* The translation of the variants: the tasks the post_save signal queues, the
\* periodic batch, and its fallback.
NextTr ==
    \/ CreatePost({"c1"}, Texts)
    \/ RequestTranslations
    \/ TranslateChannelPost(MainTranslateAnswers)
    \/ ProcessPendingTranslations
    \/ TranslateMultiPost
    \/ IntTranslateChannelPost

SpecTr == InitTr /\ [][NextTr]_vars

\* a translation service that answers and does not ask to come back later
PlainTranslateAnswers ==
    {[kind |-> "ok", code |-> ""], [kind |-> "error", code |-> "INVALID_REQUEST"]}

\* Everything that schedules or runs a translation: the signal's task, the
\* operator's request for one variant, the periodic batch and its fallback.
NextReq ==
    \/ CreatePost({"c1"}, Texts)
    \/ RequestTranslations
    \/ ViewRequestTranslation
    \/ TranslateChannelPost(PlainTranslateAnswers)
    \/ ProcessPendingTranslations
    \/ TranslateMultiPost
    \/ IntTranslateChannelPost

SpecReq == InitTr /\ [][NextReq]_vars

\* PostStatus and ChannelPostStatus
ParentStatuses ==
    {P_DRAFT, P_READY_FOR_PUBLISH, P_PUBLISHING, P_PUBLISHED, P_PARTIAL_PUBLISHED,
     P_FAILED}

VariantStatuses ==
    {DRAFT, PENDING_TRANSLATION, PENDING_PUBLISH, PUBLISHING, PUBLISHED, FAILED}

\* multi_post.update_status() on the parent as stored, in one step
UpdateStatusNow ==
    /\ requests < MaxRequests
    /\ requests' = requests + 1
    /\ parent.exists
    /\ parent' = [parent EXCEPT !.status = update_status(StatusesOf(posts), parent.status)]
    /\ UNCHANGED <<channels, chanOrder, posts, queue, workers, now, gateway>>

\* update_status as a function: a parent in any status over any statuses of
\* up to one variant per channel.
InitAgg ==
    /\ chanOrder = <<"c1", "c2", "c3">>
    /\ channels = [c \in Channels |->
                     ChannelRow(CASE c = "c1" -> "en" [] c = "c2" -> "ru"
                                  [] OTHER -> "de",
                                TRUE, TRUE, TRUE)]
    /\ \E st \in ParentStatuses :
         parent = [exists |-> TRUE, status |-> st, primary_channel |-> "c1",
                   auto_translate_enabled |-> FALSE,
                   primary_text_markdown |-> "Hello"]
    /\ now = 0
    /\ \E n \in 0..Len(chanOrder) : \E sts \in [1..n -> VariantStatuses] :
         posts = [i \in 1..n |->
                    [NewChannelPost([exists |-> TRUE, status |-> P_DRAFT,
                                     primary_channel |-> "c1",
                                     auto_translate_enabled |-> FALSE,
                                     primary_text_markdown |-> "Hello"],
                                    chanOrder[i])
                       EXCEPT !.status = sts[i]]]
    /\ queue = {}
    /\ workers = [w \in Workers |-> Idle]
    /\ gateway = {}
    /\ requests = 0

NextAgg == UpdateStatusNow

SpecAgg == InitAgg /\ [][NextAgg]_vars

\* a gateway that sends the message or refuses it for good
PlainAnswers == {[kind |-> "ok", code |-> ""], [kind |-> "error", code |-> "FORBIDDEN"]}

\* Publish requests, publish tasks on two workers and the clock: every
\* interleaving, with time passing between the saves.
NextResend ==
    \/ CreatePost({"c1"}, {"Hello"})
    \/ ViewPublish
    \/ Tick
    \/ \E w \in Workers : PublishStartAny(w)
    \/ \E w \in Workers : PublishSend(w, PlainAnswers)
    \/ \E w \in Workers : UpdateStatusRead(w)
    \/ \E w \in Workers : UpdateStatusSave(w)

SpecResend == Init /\ [][NextResend]_vars

\* The parent's operations next to the publish tasks they queue, one at a time.
NextMulti ==
    \/ AllIdle /\ CreatePost({"c1"}, Texts)
    \/ AllIdle /\ MarkReady
    \/ AllIdle /\ ViewPublishAll
    \/ AllIdle /\ ViewPublishReady
    \/ AllIdle /\ AdminDeactivateChannel
    \/ AllIdle /\ ModelPublish
    \/ AllIdle /\ PublishMultiPost
    \/ AllIdle /\ PublishReadyChannelPosts
    \/ \E w \in Workers : PublishStart(w)
    \/ \E w \in Workers : PublishSend(w, SendAnswers)
    \/ \E w \in Workers : UpdateStatusRead(w)
    \/ \E w \in Workers : UpdateStatusSave(w)

SpecMulti == Init /\ [][NextMulti]_vars

\* Publishing and deleting, on channels with and without the can-delete
\* permission.
InitDel ==
    /\ chanOrder = <<"c1", "c2", "c3">>
    /\ \E cd \in [{"c1", "c2"} -> BOOLEAN] :
         channels = [c \in Channels |->
                       ChannelRow(CASE c = "c1" -> "en" [] c = "c2" -> "ru"
                                    [] OTHER -> "de",
                                  c # "c3", TRUE, c # "c3" /\ cd[c])]
    /\ InitRest

NextDel ==
    \/ AllIdle /\ CreatePost({"c1"}, Texts)
    \/ AllIdle /\ ViewPublish
    \/ AllIdle /\ EditText
    \/ AllIdle /\ SubmitDelete
    \/ AllIdle /\ DeleteChannelPost
    \/ \E w \in Workers : PublishStart(w)
    \/ \E w \in Workers : PublishSend(w, MainAnswers)
    \/ \E w \in Workers : UpdateStatusRead(w)
    \/ \E w \in Workers : UpdateStatusSave(w)

SpecDel == InitDel /\ [][NextDel]_vars

\* Two active channels, the second with or without the can-post permission,
\* the first with or without the can-edit permission.
InitSib ==
    /\ chanOrder = <<"c1", "c2", "c3">>
    /\ \E cp \in BOOLEAN, ce \in BOOLEAN :
         channels = [c \in Channels |->
                       [ChannelRow(CASE c = "c1" -> "en" [] c = "c2" -> "ru"
                                     [] OTHER -> "de",
                                   c # "c3", c = "c1" \/ cp, TRUE)
                          EXCEPT !.bot_can_edit = (c # "c1" \/ ce)]]
    /\ InitRest

\* The tasks of the variants of one parent next to each other: translation,
\* publish on two workers, edit and delete, in any order.
NextSib ==
    \/ CreatePost({"c1"}, {"Hello"})
    \/ ViewPublish
    \/ ViewRequestTranslation
    \/ EditText
    \/ SubmitEdit
    \/ SubmitDelete
    \/ RequestTranslations
    \/ TranslateChannelPost(PlainTranslateAnswers)
    \/ EditChannelPost
    \/ DeleteChannelPost
    \/ \E w \in Workers : PublishStartAny(w)
    \/ \E w \in Workers : PublishSend(w, PlainAnswers)
    \/ \E w \in Workers : UpdateStatusRead(w)
    \/ \E w \in Workers : UpdateStatusSave(w)

SpecSib == InitSib /\ [][NextSib]_vars

\* The saves of a parent: its creation, the admin's change form and mark_ready,
\* while channels are switched on and the translation request runs.
NextSave ==
    \/ CreatePost(Channels, Texts)
    \/ SaveParent
    \/ MarkReady
    \/ ActivateChannel
    \/ RequestTranslations

SpecSave == InitFan /\ [][NextSave]_vars

\* Three active channels, each with its language or with none set.
InitLang ==
    /\ chanOrder = <<"c1", "c2", "c3">>
    /\ \E set \in SUBSET Channels :
         channels = [c \in Channels |->
                       ChannelRow(IF c \notin set THEN NoLanguage
                                  ELSE CASE c = "c1" -> "en" [] c = "c2" -> "ru"
                                         [] OTHER -> "de",
                                  TRUE, TRUE, TRUE)]
    /\ InitRest

\* The translation requests of a parent, the signal's and the operator's, and
\* the tasks they queue.
NextSched ==
    \/ CreatePost({"c1"}, Texts)
    \/ ViewRequestTranslations
    \/ ViewRequestTranslation
    \/ RequestTranslations
    \/ TranslateChannelPost(PlainTranslateAnswers)

SpecSched == InitLang /\ [][NextSched]_vars

\* Calls of translate_sync on the two workers, the service answering each
\* POST in any way. A call that has started goes on: the POST has a timeout
\* and the sleep is finite.
NextClient ==
    \/ \E w \in Workers : TranslateSyncCall(w)
    \/ \E w \in Workers : \E o \in HttpOutcomes : TranslateSyncAttempt(w, o)
    \/ \E w \in Workers : TranslateSyncDone(w)

SpecClient ==
    /\ InitTr
    /\ [][NextClient]_vars
    /\ \A w \in Workers : WF_vars(\E o \in HttpOutcomes : TranslateSyncAttempt(w, o))

----------------------------------------------------------------------------
(* Fan-out and uniqueness. *)

PostsOf(c) == {pk \in DOMAIN posts : posts[pk].channel = c}

\* what the fan-out owes one variant, from (is the primary channel, auto-translate)
FanOutTriple(p) ==
    IF p.channel = parent.primary_channel
    THEN <<PRIMARY, DRAFT, parent.primary_text_markdown>>
    ELSE IF parent.auto_translate_enabled
    THEN <<AUTO_TRANSLATED, PENDING_TRANSLATION, "">>
    ELSE <<MANUAL, DRAFT, "">>

FanOutComplete ==
    /\ Len(posts) = Cardinality({c \in Channels : channels[c].is_active})
    /\ \A c \in Channels :
         Cardinality(PostsOf(c)) = IF channels[c].is_active THEN 1 ELSE 0
    /\ \A pk \in DOMAIN posts :
         <<posts[pk].source_type, posts[pk].status, posts[pk].text_markdown>>
            = FanOutTriple(posts[pk])

UniquePerChannel ==
    \A i, j \in DOMAIN posts : posts[i].channel = posts[j].channel => i = j

\* C2: no two variants of the parent share a channel, in any state, and a
\* repeated create_channel_posts leaves every existing variant row as it was.
C2_UniqueVariant ==
    /\ []UniquePerChannel
    /\ [][CreateChannelPostsAgain =>
            (Len(posts') >= Len(posts)
             /\ \A pk \in DOMAIN posts : posts'[pk] = posts[pk])]_vars

\* C2 witness: create_channel_posts has been called again on a parent whose
\* variants have moved on. The second variant is translated; the third, of a
\* channel switched on after the creation, was added by the repeated call: no
\* translation task was ever queued for it.
C2_Witness ==
    /\ parent.exists /\ parent.auto_translate_enabled
    /\ Len(posts) = 3
    /\ posts[2].translation_received_at /\ posts[2].status = DRAFT
    /\ posts[3].status = PENDING_TRANSLATION /\ posts[3].error_message = ""
    /\ queue = {} /\ AllIdle

----------------------------------------------------------------------------
(* The aggregate. *)

\* the aggregation rules, by what the variants are rather than by counts
AggregateRule(statuses, current) ==
    LET all(st) == \A i \in DOMAIN statuses : statuses[i] = st
        some(st) == \E i \in DOMAIN statuses : statuses[i] = st
    IN  CASE all(PUBLISHED) -> P_PUBLISHED
          [] all(FAILED) -> P_FAILED
          [] ~all(PUBLISHED) /\ ~all(FAILED) /\ some(PUBLISHED)
               /\ (\A i \in DOMAIN statuses : statuses[i] \in {PUBLISHED, FAILED})
               -> P_PARTIAL_PUBLISHED
          [] OTHER -> IF some(PUBLISHING) THEN P_PUBLISHING ELSE current

\* C3: update_status called on a parent object with a non-empty variant set
\* writes published when all variants are published, failed when all are failed,
\* partial_published when some are published and all the others failed,
\* otherwise publishing when one is publishing, and otherwise the status the
\* parent object it was called on already had.
C3_UpdateStatusRules ==
    [][\A w \in Workers :
         (workers[w].pc = "update_status_save" /\ workers'[w].pc = "idle")
         => (workers[w].seen # <<>>
             /\ parent'.status = AggregateRule(workers[w].seen, workers[w].mp_status))]_vars

\* C3 witness: update_status has written partial_published over one published
\* and one failed variant.
C3_Witness ==
    /\ parent.status = P_PARTIAL_PUBLISHED
    /\ \E i, j \in DOMAIN posts :
         posts[i].status = PUBLISHED /\ posts[j].status = FAILED
    /\ \A w \in Workers : workers[w].pc = "idle"

----------------------------------------------------------------------------
(* Publishing: convergence, concurrency, idempotency, retries. *)

\* every variant is published or failed
AllTerminal ==
    /\ posts # <<>>
    /\ \A pk \in DOMAIN posts : posts[pk].status \in {PUBLISHED, FAILED}

\* no publish task is running or queued
NoPublishWork ==
    /\ AllIdle
    /\ \A m \in queue : m.task # "publish_channel_post"

\* the number of published variants
Accepted == Cardinality({pk \in DOMAIN posts : posts[pk].status = PUBLISHED})

\* C4: when the publish tasks run one after another and have all finished
\* with every variant accepted or rejected, the parent is published if all
\* were accepted, failed if none was, partial_published otherwise; a failed
\* variant has a recorded error and a published one a remote message id.
C4_PartialFailureConvergence ==
    (NoPublishWork /\ AllTerminal) =>
        /\ parent.status = IF Accepted = Len(posts) THEN P_PUBLISHED
                           ELSE IF Accepted = 0 THEN P_FAILED
                           ELSE P_PARTIAL_PUBLISHED
        /\ \A pk \in DOMAIN posts :
             /\ posts[pk].status = FAILED => posts[pk].error_message # ""
             /\ posts[pk].status = PUBLISHED => posts[pk].telegram_message_id # ""

\* C4 witness: one variant accepted, one rejected by the gateway with a
\* permanent error, the tasks finished, the parent partial_published.
C4_Witness ==
    /\ NoPublishWork
    /\ Len(posts) = 2
    /\ \E i, j \in DOMAIN posts :
         /\ posts[i].status = PUBLISHED /\ posts[i].telegram_message_id = "msg"
         /\ posts[j].status = FAILED
         /\ posts[j].error_message = "[FORBIDDEN] gateway said no"
    /\ parent.status = P_PARTIAL_PUBLISHED

\* C5: with the publish tasks of sibling variants on different workers, once
\* all tasks have finished and every variant is published or failed, the
\* parent status is the aggregate of the variant statuses.
C5_ConcurrentAggregate ==
    (AllIdle /\ queue = {} /\ AllTerminal) =>
        parent.status = AggregateRule(StatusesOf(posts), parent.status)

\* C6: all send calls for one variant carry the same idempotency key, when
\* nobody but the publish task and its retries touches the variant.
C6_SameIdempotencyKey ==
    \A a, b \in gateway : a.pk = b.pk => a.key = b.key

\* C8: the attempt that fails at the retry ceiling with a transient error
\* leaves the variant failed.
C8_FailedAtCeiling ==
    [][\A w \in Workers :
         (workers[w].pc = "send" /\ workers[w].retries = MaxRetries
          /\ workers'[w].pc # "send")
         => posts'[workers[w].pk].status = FAILED]_vars

\* the codes the spec calls transient
TransientCodes == {"TELEGRAM_RATE_LIMIT", "TELEGRAM_UNAVAILABLE", "TIMEOUT"}

\* what a gateway error owes the variant; the retry of a transient error is
\* owed when the attempt is one of atRetries
ErrorOutcome(w, a, atRetries) ==
    LET t == workers[w]
        msg == "[" \o a.code \o "] gateway said no" IN
    IF a.code \in TransientCodes
    THEN /\ posts[t.pk].status = PUBLISHING
         /\ posts'[t.pk].status = PENDING_PUBLISH
         /\ posts'[t.pk].error_message = "Retrying: " \o msg
         /\ t.retries \in atRetries => PublishMsg(t.pk, t.retries + 1) \in queue'
    ELSE /\ posts'[t.pk].status = FAILED
         /\ posts'[t.pk].error_message = msg
         /\ queue' = queue
         /\ workers'[w].after = "return"

C10_AggregateFresh ==
    (parent.exists
     /\ \A w \in Workers : workers[w].pc \notin {"update_status", "update_status_save"})
    => parent.status = update_status(StatusesOf(posts), parent.status)

----------------------------------------------------------------------------
(* Batch translation. *)

\* C7: when the batch is requested, its result moves every pending variant whose language it holds to
\* draft with the translated text, marks every pending variant whose language
\* it lacks failed with "Translation to <lang> failed", and changes no other
\* variant.
C7_BatchLanguageMatching ==
    [][\A a \in BatchAnswers :
         (~BatchSkipped /\ a.kind = "ok" /\ TranslateMultiPostAnswer(a)) =>
            \A k \in DOMAIN posts :
              IF k \notin BatchPending THEN posts'[k] = posts[k]
              ELSE IF posts[k].language \in a.translations
              THEN /\ posts'[k].status = DRAFT
                   /\ posts'[k].text_markdown =
                        Translation(parent.primary_text_markdown, posts[k].language)
              ELSE /\ posts'[k].status = FAILED
                   /\ posts'[k].error_message =
                        "Translation to " \o posts[k].language \o " failed"]_vars

----------------------------------------------------------------------------
(* The parent's operations. *)

\* C11: every step that changes the parent's status is the save of an
\* aggregate recompute, writing what the rules give for the statuses it read,
\* or the mark-ready transition from draft to ready_for_publish.
C11_ParentStatusDerived ==
    [][(parent.exists /\ parent'.status # parent.status) =>
         \/ \E w \in Workers :
              /\ workers[w].pc = "update_status_save"
              /\ workers'[w].pc = "idle"
              /\ parent'.status = AggregateRule(workers[w].seen, workers[w].mp_status)
         \/ /\ parent.status = P_DRAFT
            /\ parent'.status = P_READY_FOR_PUBLISH]_vars

\* what C12 calls not ready: no content at all, or a channel that cannot post
NotReady(p) ==
    (p.text_markdown = "" /\ p.text_telegram_html = "") \/ ~channels[p.channel].bot_can_post

\* C12: ChannelPost.publish on a variant that is not ready raises the
\* not-ready error, changes no row and queues nothing; on a ready variant it
\* sets the status to publishing, leaves every other field but the
\* modification time, and queues one publish task for that variant.
C12_PublishPrecondition ==
    [][\A pk \in DOMAIN posts :
         ModelPublishOn(pk) =>
            IF NotReady(posts[pk])
            THEN /\ publish(pk).raised # ""
                 /\ posts' = posts
                 /\ queue' = queue
            ELSE /\ publish(pk).raised = ""
                 /\ posts' = [posts EXCEPT ![pk].status = PUBLISHING,
                                           ![pk].updated_at = posts'[pk].updated_at]
                 /\ queue' = queue \cup {PublishMsg(pk, 0)}
                 /\ publish(pk).queued = {PublishMsg(pk, 0)}]_vars

\* C12 witness: publish has set a ready variant publishing and queued its task
\* (no worker has taken it, nothing was sent), next to a variant that has no
\* content and is still a draft.
C12_Witness ==
    /\ AllIdle /\ gateway = {}
    /\ \E i, j \in DOMAIN posts :
         /\ posts[i].status = PUBLISHING
         /\ PublishMsg(i, 0) \in queue
         /\ NotReady(posts[j]) /\ posts[j].status = DRAFT

\* what C13 lets publish_ready_channel_posts queue
ReadyEligible(p) ==
    /\ p.status = DRAFT \/ p.status = PENDING_PUBLISH
    /\ p.text_markdown # ""
    /\ channels[p.channel].is_active /\ channels[p.channel].bot_can_post

\* C13: a run of publish_ready_channel_posts queues a publish task for the
\* variants that are draft or pending_publish with markdown on an active,
\* can-post channel, and for no other: none for a variant pending translation,
\* publishing, published or failed.
C13_PublishReadyOnlyReady ==
    [][PublishReadyChannelPosts =>
         /\ queue' = (queue \ {PublishReadyMsg})
                       \cup {PublishMsg(k, 0) : k \in {j \in DOMAIN posts : ReadyEligible(posts[j])}}
         /\ \A k \in DOMAIN posts :
              posts[k].status \in {PENDING_TRANSLATION, PUBLISHING, PUBLISHED, FAILED}
              => (PublishMsg(k, 0) \in queue' => PublishMsg(k, 0) \in queue)]_vars

\* C13 witness: publish_ready_channel_posts has run as the only request on an
\* auto-translated parent: the primary draft is converted and queued, the
\* variant pending translation is not.
C13_Witness ==
    /\ parent.status = P_DRAFT /\ requests = 1 /\ AllIdle
    /\ PublishReadyMsg \notin queue
    /\ \E i, j \in DOMAIN posts :
         /\ posts[i].status = DRAFT /\ posts[i].text_telegram_html = "<Hello>"
         /\ PublishMsg(i, 0) \in queue
         /\ posts[j].status = PENDING_TRANSLATION
         /\ PublishMsg(j, 0) \notin queue

\* what C14 has publish_multi_post queue
AllEligible(p) ==
    /\ channels[p.channel].is_active /\ channels[p.channel].bot_can_post
    /\ p.status # PUBLISHED

\* C14: a run of publish_multi_post queues one publish task for every variant
\* that is not published and whose channel is active and can post, and none
\* for a variant that is published or whose channel is inactive or cannot post.
C14_PublishAllTargets ==
    [][PublishMultiPost =>
         /\ \A k \in DOMAIN posts : AllEligible(posts[k]) => PublishMsg(k, 0) \in queue'
         /\ \A k \in DOMAIN posts :
              ~AllEligible(posts[k]) => (PublishMsg(k, 0) \in queue' => PublishMsg(k, 0) \in queue)
         /\ \A m \in queue' \ queue : \E k \in DOMAIN posts : m = PublishMsg(k, 0)]_vars

\* C14 witness: publish_multi_post has run a second time, after the first
\* variant was published: the parent is publishing again, the unpublished
\* variant is queued, the published one is not.
C14_Witness ==
    /\ parent.status = P_PUBLISHING /\ AllIdle
    /\ PublishMultiMsg \notin queue
    /\ Len(posts) = 2
    /\ posts[1].status = PUBLISHED /\ PublishMsg(1, 0) \notin queue
    /\ posts[2].status = FAILED /\ PublishMsg(2, 0) \in queue


\* C15: a create request whose primary channel is not of the selected group
\* is rejected: no parent is persisted, no variant is created and no
\* translation task is scheduled.
C15_CreateValidation ==
    [][\A pc \in OtherChannels, auto \in BOOLEAN, text \in Texts :
         ApiCreatePostWith(pc, auto, text) =>
            /\ ~parent'.exists
            /\ posts' = posts /\ posts' = <<>>
            /\ queue' = queue /\ RequestTranslationsMsg \notin queue']_vars

\* Every request so far was a rejected create: no channel was switched on and
\* no parent exists.
C15_Witness ==
    /\ requests = MaxRequests
    /\ \A c \in Channels : ~channels[c].is_active
    /\ ~parent.exists
    /\ posts = <<>>
    /\ queue = {}

----------------------------------------------------------------------------
(* Manual edits. *)

\* C16: once a variant is manually edited, no translation task overwrites its
\* content: only another manual edit changes the text of such a variant.
C16_ManualEditsKept ==
    [][(\E pk \in DOMAIN posts :
           /\ posts[pk].manually_edited
           /\ posts'[pk].text_markdown # posts[pk].text_markdown)
        => EditText]_vars

----------------------------------------------------------------------------
(* mark_published and mark_failed. *)

\* C18: mark_published(id) sets the variant's status to published, records the
\* remote message id and the publish timestamp and clears the error message,
\* touching no other variant and not yet the parent; the recompute of the
\* parent aggregate follows, and its count queries see the published variant.
C18_MarkPublished ==
    [][\A w \in Workers :
         /\ PublishSendAnswer(w, [kind |-> "ok", code |-> ""]) =>
              LET pk == workers[w].pk IN
              /\ posts'[pk].status = PUBLISHED
              /\ posts'[pk].telegram_message_id = "msg"
              /\ posts'[pk].published_at
              /\ posts'[pk].error_message = ""
              /\ \A k \in DOMAIN posts : k # pk => posts'[k] = posts[k]
              /\ parent' = parent
              /\ workers'[w].pc = "update_status"
         /\ (UpdateStatusRead(w) /\ workers[w].after # "retry"
               /\ posts[workers[w].pk].status = PUBLISHED) =>
              /\ workers'[w].seen = StatusesOf(posts)
              /\ workers'[w].seen[workers[w].pk] = PUBLISHED
              /\ workers'[w].pc = "update_status_save"
         /\ (UpdateStatusSave(w) /\ workers[w].after # "retry"
               /\ posts[workers[w].pk].status = PUBLISHED) =>
              parent'.status = update_status(workers[w].seen, workers[w].mp_status)]_vars

\* A variant published on a retry: the error of the earlier attempt is cleared
\* and the recompute is about to run.
C18_Witness ==
    \E w \in Workers :
        /\ workers[w].pc = "update_status"
        /\ workers[w].retries >= 1
        /\ posts[workers[w].pk].status = PUBLISHED
        /\ posts[workers[w].pk].telegram_message_id = "msg"
        /\ posts[workers[w].pk].published_at
        /\ posts[workers[w].pk].error_message = ""

\* The message the publish task passes to mark_failed for a gateway answer.
FailureMessage(a) ==
    CASE a.kind = "none" -> "No message ID received from Telegram"
      [] a.kind = "error" -> ErrorMsg(a.code)
      [] OTHER -> "connection reset"

\* The row after mark_failed(msg): only status, error and save time differ.
FailedWith(old, new, msg) ==
    /\ new = [old EXCEPT !.status = FAILED, !.error_message = msg,
                         !.updated_at = new.updated_at]
    /\ new.text_markdown = old.text_markdown
    /\ new.text_telegram_html = old.text_telegram_html
    /\ new.source_type = old.source_type
    /\ new.telegram_message_id = old.telegram_message_id

\* C19: mark_failed(message) sets the variant's status to failed and records
\* the message as its error, leaves content, source type and remote message id
\* unchanged, touches no other variant and not yet the parent; the recompute of
\* the parent aggregate follows, and its count queries see the failed variant.
C19_MarkFailed ==
    [][\A w \in Workers :
         /\ (PublishStart(w) /\ workers'[w].pc = "update_status") =>
              LET pk == workers'[w].pk IN
              /\ \/ FailedWith(posts[pk], posts'[pk], "Bot does not have posting permissions")
                 \/ FailedWith(posts[pk], posts'[pk], "No content to publish")
              /\ \A k \in DOMAIN posts : k # pk => posts'[k] = posts[k]
              /\ parent' = parent
         /\ \A a \in SendAnswers :
              (PublishSendAnswer(w, a) /\ a.kind # "ok"
                 /\ ~(a.kind = "error" /\ IsTransient(a.code))) =>
              LET pk == workers[w].pk IN
              /\ FailedWith(posts[pk], posts'[pk], FailureMessage(a))
              /\ \A k \in DOMAIN posts : k # pk => posts'[k] = posts[k]
              /\ parent' = parent
              /\ workers'[w].pc = "update_status"
         /\ (UpdateStatusRead(w) /\ posts[workers[w].pk].status = FAILED) =>
              /\ workers'[w].seen = StatusesOf(posts)
              /\ workers'[w].seen[workers[w].pk] = FAILED
              /\ workers'[w].pc = "update_status_save"
         /\ (UpdateStatusSave(w) /\ posts[workers[w].pk].status = FAILED) =>
              parent'.status = update_status(workers[w].seen, workers[w].mp_status)]_vars

\* A variant that was published before fails on a later publish: it keeps its
\* message id and its content, and the recompute is about to run.
C19_Witness ==
    \E w \in Workers :
        /\ workers[w].pc = "update_status"
        /\ posts[workers[w].pk].status = FAILED
        /\ posts[workers[w].pk].error_message # ""
        /\ posts[workers[w].pk].telegram_message_id = "msg"
        /\ posts[workers[w].pk].text_markdown # ""

----------------------------------------------------------------------------
(* Deleting a published variant's message. *)

\* C20: the delete task on a variant, published or not. When the variant holds a
\* message id, the channel has the can-delete permission and the gateway
\* confirms, the variant goes from published to draft with its message id and
\* publish timestamp cleared and nothing else but the save time changed. When
\* it holds no message id, the permission is missing, the gateway reports no
\* success or the gateway call raises, every variant is left as it was.
C20_DeletePublished ==
    [][\A m \in queue, a \in DeleteAnswers :
         DeleteChannelPostOn(m, a) =>
            LET p == posts[m.pk]
                q == posts'[m.pk] IN
            IF p.telegram_message_id # "" /\ channels[p.channel].bot_can_delete
               /\ a = "success"
            THEN /\ q.status = DRAFT
                 /\ q.telegram_message_id = ""
                 /\ ~q.published_at
                 /\ q = [p EXCEPT !.status = DRAFT, !.telegram_message_id = "",
                                  !.published_at = FALSE, !.updated_at = q.updated_at]
                 /\ \A k \in DOMAIN posts : k # m.pk => posts'[k] = posts[k]
            ELSE posts' = posts]_vars

\* A variant whose message was sent and then deleted: draft again, without
\* message id or publish timestamp, its content kept.
C20_Witness ==
    \E pk \in DOMAIN posts :
        /\ \E call \in gateway : call.pk = pk
        /\ posts[pk].status = DRAFT
        /\ posts[pk].telegram_message_id = ""
        /\ ~posts[pk].published_at
        /\ posts[pk].text_telegram_html # ""

----------------------------------------------------------------------------
(* The variant's status and its remote message. *)

\* C21: in every state a variant's remote message id is non-empty exactly
\* when the variant's status is published.
C21_MessageIdIffPublished ==
    \A pk \in DOMAIN posts :
        (posts[pk].telegram_message_id # "") <=> (posts[pk].status = PUBLISHED)

\* C22: a variant enters the failed status only from pending_translation,
\* pending_publish or publishing, never directly from draft or published.
C22_FailedOnlyFromInFlight ==
    [][\A pk \in DOMAIN posts :
         (posts'[pk].status = FAILED /\ posts[pk].status # FAILED)
         => posts[pk].status \in {PENDING_TRANSLATION, PENDING_PUBLISH, PUBLISHING}]_vars

----------------------------------------------------------------------------
(* The translation task of a variant. *)

\* the translation task of variant pk is taken from the queue in this step
TranslateTaskTaken(pk) ==
    \E r \in 0..MaxRetries :
        TranslateMsg(pk, r) \in queue /\ TranslateMsg(pk, r) \notin queue'

OkAnswer == [kind |-> "ok", code |-> ""]

\* C23: a successful translation of a variant sets its content to the
\* translated text, leaves it with source type auto_translated, moves its
\* status to draft, records the translation-received timestamp and clears its
\* error message.
C23_SuccessfulTranslation ==
    [][\A pk \in DOMAIN posts :
         (/\ TranslateChannelPost({OkAnswer})
          /\ TranslateTaskTaken(pk)
          /\ posts[pk].source_type # PRIMARY
          /\ NeedsService(posts[pk]))
         => /\ posts'[pk].text_markdown =
                 Translation(parent.primary_text_markdown, posts[pk].language)
            /\ posts'[pk].source_type = AUTO_TRANSLATED
            /\ posts'[pk].status = DRAFT
            /\ posts'[pk].translation_received_at
            /\ posts'[pk].error_message = ""]_vars

\* a translation precondition fails for the variant p: no source text, no
\* source language or no target language
PreconditionFails(p) ==
    \/ parent.primary_text_markdown = ""
    \/ SourceLanguage = NoLanguage
    \/ p.language = NoLanguage

\* the variant is set to draft with an error and keeps its content
DraftWithError(old, new) ==
    /\ new.status = DRAFT
    /\ new.error_message # ""
    /\ new.text_markdown = old.text_markdown

\* C24: when a translation task runs for a variant whose translation
\* precondition fails, the variant is set to draft with a non-empty error and
\* keeps its content, on the single-variant path and on the batch path.
C24_TranslationPreconditions ==
    [][\A pk \in DOMAIN posts :
         /\ (/\ TranslateChannelPost(MainTranslateAnswers)
             /\ TranslateTaskTaken(pk)
             /\ posts[pk].source_type # PRIMARY
             /\ PreconditionFails(posts[pk]))
            => DraftWithError(posts[pk], posts'[pk])
         /\ (/\ TranslateMultiPost
             /\ posts[pk].source_type # PRIMARY
             /\ posts[pk].status = PENDING_TRANSLATION
             /\ PreconditionFails(posts[pk]))
            => DraftWithError(posts[pk], posts'[pk])]_vars

\* C25: a variant with source type primary never undergoes translation: no
\* step of a translation task or of a translation request changes its
\* content, status or source type, and no translation task is ever queued
\* for it.
C25_PrimaryNeverTranslated ==
    [][\A pk \in DOMAIN posts :
         posts[pk].source_type = PRIMARY =>
            /\ posts'[pk].text_markdown = posts[pk].text_markdown
            /\ posts'[pk].text_telegram_html = posts[pk].text_telegram_html
            /\ posts'[pk].status = posts[pk].status
            /\ posts'[pk].source_type = PRIMARY
            /\ ~posts'[pk].translation_received_at
            /\ \A r \in 0..MaxRetries :
                 /\ TranslateMsg(pk, r) \notin queue'
                 /\ IntTranslateMsg(pk, r) \notin queue']_vars

\* Every other variant was translated, the operator having asked for a
\* translation, and the primary variant is as it was created.
C25_Witness ==
    /\ requests >= 1
    /\ queue = {}
    /\ \E pk \in DOMAIN posts :
         /\ posts[pk].source_type = PRIMARY
         /\ posts[pk].status = DRAFT
         /\ posts[pk].text_markdown = parent.primary_text_markdown
         /\ posts[pk].text_markdown # ""
    /\ \A pk \in DOMAIN posts :
         posts[pk].source_type # PRIMARY => posts[pk].translation_received_at

----------------------------------------------------------------------------
(* update_status as a function of the variant statuses. *)

\* the sequences s and t hold the same statuses the same number of times
SameMultiset(s, t) ==
    /\ Len(s) = Len(t)
    /\ \A st \in VariantStatuses : Count(s, st) = Count(t, st)

\* the sequences of the length of s
SequencesLike(s) == [1..Len(s) -> VariantStatuses]

\* one of the four rules of update_status matches the statuses
RuleApplies(s) ==
    /\ Len(s) > 0
    /\ \/ Count(s, PUBLISHED) = Len(s)
       \/ Count(s, FAILED) = Len(s)
       \/ Count(s, PUBLISHED) > 0 /\ Count(s, PUBLISHED) + Count(s, FAILED) = Len(s)
       \/ Count(s, PUBLISHING) > 0

\* running update_status again, with no variant change, changes nothing more
Idempotent ==
    [][UpdateStatusNow =>
         update_status(StatusesOf(posts'), parent'.status) = parent'.status]_vars

----------------------------------------------------------------------------
(* Leaving pending_translation. *)

\* a task that translates, or that schedules a translation, is still queued
TranslationWorkLeft ==
    \E m \in queue :
        m.task \in {"request_translations", "translate_channel_post",
                    "translate_multi_post", "translation.translate_channel_post"}

\* C27: a variant does not stay in pending_translation once its translation
\* task and all its retries have finished: while a variant is pending
\* translation with a failed attempt recorded on it, translation work is
\* still queued.
C27_PendingTranslationLeaves ==
    \A pk \in DOMAIN posts :
        (posts[pk].status = PENDING_TRANSLATION /\ posts[pk].error_message # "")
        => TranslationWorkLeft

----------------------------------------------------------------------------
(* One live message per variant. *)

\* C28: a variant has at most one live remote message: a send to the gateway
\* succeeds only for a variant that holds no message, or else repeats the
\* idempotency key of an earlier send for the variant, whatever publish
\* requests, tasks and retries ran before.
C28_OneLiveMessage ==
    [][\A w \in Workers :
         PublishSendAnswer(w, OkAnswer) =>
            \/ posts[workers[w].pk].telegram_message_id = ""
            \/ \E call \in gateway :
                 /\ call.pk = workers[w].pk
                 /\ call.key = IdempotencyKey(workers[w].pk, workers[w].updated_at)]_vars

----------------------------------------------------------------------------
(* The parent after publish_multi_post. *)

\* C29: once publish_multi_post and every publish task have finished, with no
\* variant waiting for a retry, the parent is publishing only if some variant
\* is publishing.
C29_ParentNotLeftPublishing ==
    (/\ AllIdle
     /\ queue = {}
     /\ parent.status = P_PUBLISHING
     /\ \A pk \in DOMAIN posts : posts[pk].status # PENDING_PUBLISH)
    => \E pk \in DOMAIN posts : posts[pk].status = PUBLISHING

----------------------------------------------------------------------------
(* update_status on a parent another worker has written. *)

\* C30: when update_status, run from a variant task, finds that no aggregate
\* rule matches the variant statuses it counted, its save leaves the stored
\* parent status as it is in storage at that moment.
C30_NoRuleKeepsStored ==
    [][\A w \in Workers :
         (UpdateStatusSave(w) /\ ~RuleApplies(workers[w].seen))
         => parent'.status = parent.status]_vars

----------------------------------------------------------------------------
(* The tasks of sibling variants. *)

\* the step leaves every row but that of pk as it is, and adds or drops none
OnlyRow(pk) ==
    /\ DOMAIN posts' = DOMAIN posts
    /\ \A k \in DOMAIN posts : k # pk => posts'[k] = posts[k]

\* the row the start of the publish task leaves, from the row and its channel
StartedRow(p) ==
    IF ~channels[p.channel].bot_can_post
    THEN MarkFailedRow(p, "Bot does not have posting permissions")
    ELSE IF p.text_telegram_html = "" /\ p.text_markdown = ""
    THEN MarkFailedRow(p, "No content to publish")
    ELSE [(IF p.text_telegram_html = "" THEN ConvertRow(p) ELSE p)
             EXCEPT !.status = PUBLISHING, !.updated_at = now]

\* the row the publish task leaves after the gateway's answer a, from the row
SentRow(p, a) ==
    CASE a.kind = "ok" -> MarkPublishedRow(p, "msg")
      [] a.kind = "error" /\ IsTransient(a.code) ->
           [p EXCEPT !.status = PENDING_PUBLISH,
                     !.error_message = "Retrying: " \o ErrorMsg(a.code),
                     !.updated_at = now]
      [] OTHER -> MarkFailedRow(p, FailureMessage(a))

\* the row the translation task leaves after the service's answer a, from the
\* row and the parent's source text and languages
TranslationRow(p, a) ==
    IF p.source_type = PRIMARY THEN p
    ELSE IF ~NeedsService(p) THEN TranslateEarlyRow(p)
    ELSE IF a.kind = "ok" THEN TranslatedRow(p)
    ELSE [p EXCEPT !.status = DRAFT, !.error_message = LLMErrorMsg(a.code),
                   !.updated_at = now]

\* C31: a translation, publish, edit or delete task of one variant, and an
\* operator's edit, changes no row but that variant's; and the row it leaves
\* is determined by the variant's own row, its channel, the parent's source
\* and the answer of the service it calls, so neither the outcome nor the
\* order of the siblings' tasks changes the variant's status or message id.
C31_SiblingIndependence ==
    [][/\ \A w \in Workers :
            /\ PublishStartAny(w) =>
                 /\ OnlyRow(workers'[w].pk)
                 /\ posts'[workers'[w].pk] = StartedRow(posts[workers'[w].pk])
            /\ \A a \in PlainAnswers :
                 PublishSendAnswer(w, a) =>
                   /\ OnlyRow(workers[w].pk)
                   /\ posts'[workers[w].pk] = SentRow(posts[workers[w].pk], a)
            /\ (UpdateStatusRead(w) \/ UpdateStatusSave(w)) => posts' = posts
       /\ \A pk \in DOMAIN posts :
            /\ \A a \in PlainTranslateAnswers :
                 (TranslateChannelPost({a}) /\ TranslateTaskTaken(pk)) =>
                   /\ OnlyRow(pk)
                   /\ posts'[pk] = TranslationRow(posts[pk], a)
            /\ \A r \in 0..MaxRetries, a \in DeleteAnswers :
                 DeleteChannelPostOn(DeleteMsg(pk, r), a) =>
                   /\ OnlyRow(pk)
                   /\ posts'[pk] \in {posts[pk], DeletedRow(posts[pk])}
                   /\ posts'[pk] # posts[pk] =>
                        /\ a = "success"
                        /\ posts[pk].telegram_message_id # ""
                        /\ channels[posts[pk].channel].bot_can_delete
            /\ \A r \in 0..MaxRetries, a \in EditAnswers :
                 EditChannelPostOn(EditMsg(pk, r), a) =>
                   /\ OnlyRow(pk)
                   /\ posts'[pk] \in {posts[pk], ConvertRow(posts[pk])}
                   /\ posts'[pk].status = posts[pk].status
                   /\ posts'[pk].telegram_message_id = posts[pk].telegram_message_id
       /\ EditText =>
            \E pk \in DOMAIN posts :
               /\ OnlyRow(pk)
               /\ posts'[pk].status = posts[pk].status
               /\ posts'[pk].telegram_message_id = posts[pk].telegram_message_id]_vars

\* Two publish tasks of sibling variants have run side by side, one variant
\* was published and the other failed, and both recomputes are still to run.
C31_Witness ==
    /\ workers[1].pc = "update_status"
    /\ workers[2].pc = "update_status"
    /\ workers[1].pk # workers[2].pk
    /\ {posts[workers[1].pk].status, posts[workers[2].pk].status} = {PUBLISHED, FAILED}
    /\ \E pk \in DOMAIN posts :
         posts[pk].status = PUBLISHED /\ posts[pk].telegram_message_id = "msg"

----------------------------------------------------------------------------
(* A failed variant and the task's retries. *)

\* C32: once the publish task has recorded its variant as failed, it queues no
\* retry of itself, and no retried publish task (one that the operator did not
\* queue) starts on a failed variant, whatever error the send call raised.
C32_NoRetryAfterFailed ==
    [][\A w \in Workers :
         /\ (UpdateStatusSave(w) /\ posts[workers[w].pk].status = FAILED) =>
              \A r \in 0..MaxRetries :
                 PublishMsg(workers[w].pk, r) \in queue' =>
                    PublishMsg(workers[w].pk, r) \in queue
         /\ (PublishStartAny(w) /\ workers'[w].retries > 0) =>
              posts[workers'[w].pk].status # FAILED]_vars

----------------------------------------------------------------------------
(* The status a translation task finds. *)

\* C33: a step of a translation task (the single-variant task, the batch task
\* or its fallback) changes the content or the status of a variant only if the
\* variant is in pending_translation before the step; a published or
\* publishing variant keeps its status and content.
C33_TranslationOnlyWhenPending ==
    [][(TranslateChannelPost(MainTranslateAnswers) \/ TranslateMultiPost
          \/ IntTranslateChannelPost)
       => \A pk \in DOMAIN posts :
            posts[pk].status # PENDING_TRANSLATION =>
               /\ posts'[pk].status = posts[pk].status
               /\ posts'[pk].text_markdown = posts[pk].text_markdown
               /\ posts'[pk].text_telegram_html = posts[pk].text_telegram_html]_vars

----------------------------------------------------------------------------
(* The text a publish task sends. *)

\* C34: the text a publish task sends to the gateway is the transport-format
\* conversion of the markdown the variant has when the send is made, also
\* after an edit or a translation has changed the markdown.
C34_SendsCurrentText ==
    [][\A w \in Workers : \A a \in SendAnswers :
         PublishSendAnswer(w, a) =>
            workers[w].html =
               markdown_to_telegram_html(posts[workers[w].pk].text_markdown)]_vars

----------------------------------------------------------------------------
(* The primary variant. *)

\* the variants with source type primary
PrimaryVariants == {pk \in DOMAIN posts : posts[pk].source_type = PRIMARY}

\* C35: once the parent is created it has exactly one variant with source
\* type primary, on the parent's primary channel; the variant is created
\* with the parent's source text, and no step adds a second primary variant.
C35_OnePrimaryVariant ==
    /\ [](parent.exists =>
            /\ Cardinality(PrimaryVariants) = 1
            /\ \A pk \in PrimaryVariants : posts[pk].channel = parent.primary_channel)
    /\ [][\A pk \in DOMAIN posts' :
            (posts'[pk].source_type = PRIMARY /\ pk \notin PrimaryVariants) =>
               /\ PrimaryVariants = {}
               /\ posts'[pk].text_markdown = parent'.primary_text_markdown]_vars

----------------------------------------------------------------------------
(* The post_save receiver. *)

----------------------------------------------------------------------------
(* What request_translations schedules. *)

\* the variants the claim names: auto-translated, pending translation, in a
\* language other than the primary channel's
ToTranslate ==
    {pk \in DOMAIN posts :
       /\ posts[pk].source_type = AUTO_TRANSLATED
       /\ posts[pk].status = PENDING_TRANSLATION
       /\ posts[pk].language # channels[parent.primary_channel].language}

----------------------------------------------------------------------------
(* The fallback of the batch translation. *)

\* the batch task with r retries behind it is taken from the queue in this step
BatchTaskTaken(r) == BatchMsg(r) \in queue /\ BatchMsg(r) \notin queue'

\* a single-variant task of the fallback is queued for pk
FallbackQueued(q, pk) == \E r \in 0..MaxRetries : IntTranslateMsg(pk, r) \in q

\* the batch call of translate_multi_post failed with a non-transient error:
\* a single-variant task is queued for every variant that was pending
BatchFallsBack ==
    \A a \in BatchAnswers :
       (/\ TranslateMultiPostAnswer(a)
        /\ ~BatchSkipped
        /\ a.kind # "ok"
        /\ ~(a.kind = "error" /\ IsTransientLLM(a.code)))
       => /\ \A k \in BatchPending : IntTranslateMsg(k, 0) \in queue'
          /\ \A k \in DOMAIN posts :
               (k \notin BatchPending /\ ~FallbackQueued(queue, k))
                  => ~FallbackQueued(queue', k)
          /\ \A r \in 0..MaxBatchRetries :
               BatchMsg(r) \notin queue => BatchMsg(r) \notin queue'

\* the batch call failed with a transient error: the batch task is queued
\* again, unless it has been retried max_retries times
BatchRetries ==
    \A a \in BatchAnswers, r \in 0..MaxBatchRetries :
       (/\ TranslateMultiPostAnswer(a)
        /\ ~BatchSkipped
        /\ BatchTaskTaken(r)
        /\ a.kind = "error" /\ IsTransientLLM(a.code))
       => /\ r < MaxBatchRetries => BatchMsg(r + 1) \in queue'
          /\ \A k \in DOMAIN posts : ~FallbackQueued(queue, k) => ~FallbackQueued(queue', k)
          /\ posts' = posts

\* a single-variant task of the fallback has run for the last time on a
\* variant: the variant is not pending translation any more
FallbackEndsInDraft ==
    \A pk \in DOMAIN posts :
       (IntTranslateChannelPost /\ FallbackQueued(queue, pk)
          /\ ~FallbackQueued(queue', pk))
       => posts'[pk].status # PENDING_TRANSLATION

\* C38: when the batch call of translate_multi_post fails with a non-transient
\* error, a single-variant translation task is queued for every variant that
\* was pending, and when such a task has run for the last time its variant
\* has left pending_translation for draft; when the batch call fails with a
\* transient error the batch task is queued again, at most max_retries times,
\* and no retry beyond that count is ever queued.
C38_BatchFallback ==
    /\ [][BatchFallsBack /\ BatchRetries /\ FallbackEndsInDraft]_vars
    /\ [](\A m \in queue : m.task = "translate_multi_post" => m.retries <= MaxBatchRetries)

----------------------------------------------------------------------------
(* mark_ready. *)

\* C39: mark_ready on a draft parent answers 200 and leaves the parent
\* ready_for_publish; on a parent in any other status it answers with an error
\* (400) and leaves the parent's status as it was. It changes nothing else.
C39_MarkReady ==
    [][MarkReady =>
         /\ parent.status = P_DRAFT =>
              /\ parent'.status = P_READY_FOR_PUBLISH
              /\ mark_ready(parent).http = 200
         /\ parent.status # P_DRAFT =>
              /\ parent'.status = parent.status
              /\ mark_ready(parent).http = 400
         /\ parent' = [parent EXCEPT !.status = parent'.status]
         /\ posts' = posts
         /\ queue' = queue]_vars

\* mark_ready has moved the parent to ready_for_publish, and a second request
\* was made since.
C39_Witness ==
    /\ parent.status = P_READY_FOR_PUBLISH
    /\ requests = 2
    /\ posts # <<>>

----------------------------------------------------------------------------
(* translate_sync. *)

\* the errors the claim calls transient, as last_exception holds them
TransientLast ==
    {[type |-> "TranslationError", code |-> c] :
        c \in {"LLM_RATE_LIMIT", "LLM_UNAVAILABLE", "LLM_TIMEOUT"}}
    \cup {[type |-> "TranslationError(" \o t \o ")", code |-> "INTERNAL_ERROR"] :
             t \in {"ConnectError", "ReadTimeout"}}

InTranslateSync(w) == workers[w].pc \in {"translate_sync", "returned", "raised"}

\* C40: translate_sync makes at most max_retries POSTs and always ends: it
\* goes on to another attempt only after a transient error (LLM_RATE_LIMIT,
\* LLM_UNAVAILABLE, LLM_TIMEOUT, connect error, read timeout), having slept
\* retry_delay * 2^attempt; it makes one attempt when the first error is
\* permanent; it returns the translation of the first attempt that succeeds
\* and otherwise raises the last error.
C40_TranslateSync ==
    /\ [](\A w \in Workers : InTranslateSync(w) =>
            /\ workers[w].posted <= ClientMaxRetries
            /\ \A i \in DOMAIN workers[w].slept :
                 workers[w].slept[i] = ClientRetryDelay * (2 ^ (i - 1))
            /\ workers[w].pc = "returned" =>
                 /\ workers[w].result =
                      Translation(workers[w].text, workers[w].target_language)
                 /\ workers[w].posted = Len(workers[w].slept) + 1
            /\ workers[w].pc = "raised" =>
                 /\ workers[w].raised = workers[w].last_exception
                 /\ workers[w].raised # NoException
                 /\ workers[w].posted = Len(workers[w].slept) + 1)
    /\ [][\A w \in Workers : \A o \in HttpOutcomes :
            TranslateSyncAttempt(w, o) =>
               /\ workers'[w].pc = "translate_sync" =>
                    /\ workers'[w].last_exception \in TransientLast
                    /\ workers'[w].last_exception = LastException(o)
                    /\ Len(workers'[w].slept) = Len(workers[w].slept) + 1
               /\ o.type = "ok" => workers'[w].pc = "returned"
               /\ (o.type # "ok" /\ LastException(o) \notin TransientLast) =>
                    /\ workers'[w].pc = "raised"
                    /\ workers'[w].raised = LastException(o)
                    /\ workers[w].posted = 0 => workers'[w].posted = 1
               /\ (o.type # "ok" /\ workers'[w].pc = "raised") =>
                    workers'[w].raised = LastException(o)]_vars
    /\ \A w \in Workers :
         (workers[w].pc = "translate_sync") ~> (workers[w].pc \in {"returned", "raised"})

\* A call that met two transient errors, slept 1 and 2, and returned the
\* translation of its third attempt.
C40_Witness ==
    \E w \in Workers :
        /\ workers[w].pc = "returned"
        /\ workers[w].posted = ClientMaxRetries
        /\ workers[w].slept = <<1, 2>>
        /\ workers[w].last_exception \in TransientLast
        /\ workers[w].result = Translation("Hello", workers[w].target_language)
====
